---------------------------- MODULE Spec2Model ----------------------------
(***************************************************************************)
(* A model of rst2rst's RSTTranslator (src/rst2rst/writer.py): the         *)
(* docutils NodeVisitor that re-emits a document tree as normalised        *)
(* reStructuredText.                                                       *)
(*                                                                         *)
(* A text is a sequence of one-character strings.  The translator object   *)
(* is the record `self`, with the fields of RSTTranslator.__init__; a      *)
(* handler visit_X / depart_X is an operator from translator record to     *)
(* translator record, and an action VisitX / DepartX applies it at the     *)
(* current position of docutils' walkabout.  Block structure is generated  *)
(* on the fly (any child the docutils content model allows may come        *)
(* next); the inline content of a paragraph is an input chosen when the    *)
(* paragraph is entered, because visit_paragraph reads node.astext().      *)
(***************************************************************************)
EXTENDS Integers, Sequences, FiniteSets, TLC

VARIABLES
    options,   \* the Options object (writer.py 18-64)
    self,      \* the RSTTranslator object (writer.py 90-166)
    path,      \* walkabout's stack of entered nodes, innermost last
    status,    \* "walking", "done", or the exception that ended the walk
    input,     \* the family of documents being walked (fixed by Init)
    visited,   \* number of nodes entered or skipped so far
    last       \* the handler that ran last and the node it ran on

vars == <<options, self, path, status, input, visited, last>>

(***************************************************************************)
(* Characters and texts                                                    *)
(***************************************************************************)

\* chr(32) .. chr(126), in code point order.  A character is a one-character
\* string, except the double quote and the backquote, which a TLA+ string
\* cannot hold and which are written "dquote" and "bq".
AsciiTable ==
    <<" ", "!", "dquote", "#", "$", "%", "&", "'", "(", ")", "*", "+", ",", "-",
      ".", "/", "0", "1", "2", "3", "4", "5", "6", "7", "8", "9", ":", ";",
      "<", "=", ">", "?", "@", "A", "B", "C", "D", "E", "F", "G", "H", "I",
      "J", "K", "L", "M", "N", "O", "P", "Q", "R", "S", "T", "U", "V", "W",
      "X", "Y", "Z", "[", "\\", "]", "^", "_", "bq", "a", "b", "c", "d", "e",
      "f", "g", "h", "i", "j", "k", "l", "m", "n", "o", "p", "q", "r", "s",
      "t", "u", "v", "w", "x", "y", "z", "{", "|", "}", "~">>

BQ == "bq"

Chr(n) == AsciiTable[n - 31]

\* ord(c); "\n" is chr(10).
Ord(c) ==
    IF c = "\n" THEN 10
    ELSE 31 + (CHOOSE i \in 1..Len(AsciiTable) : AsciiTable[i] = c)

IsUpperChar(c) == Ord(c) >= 65 /\ Ord(c) <= 90
IsLowerChar(c) == Ord(c) >= 97 /\ Ord(c) <= 122
IsAlpha(c) == IsUpperChar(c) \/ IsLowerChar(c)

\* str.upper() on one character and on a text.
UpperChar(c) == IF IsLowerChar(c) THEN Chr(Ord(c) - 32) ELSE c
Upper(t) == [i \in 1..Len(t) |-> UpperChar(t[i])]

Last(s) == s[Len(s)]
Front(s) == SubSeq(s, 1, Len(s) - 1)

\* ''.join(parts)
RECURSIVE Join(_)
Join(parts) ==
    IF parts = <<>> THEN <<>> ELSE Head(parts) \o Join(Tail(parts))

\* sep.join(parts)
RECURSIVE JoinWith(_, _)
JoinWith(sep, parts) ==
    IF parts = <<>> THEN <<>>
    ELSE IF Len(parts) = 1 THEN parts[1]
    ELSE parts[1] \o sep \o JoinWith(sep, Tail(parts))

\* text.split(sep) for a one-character separator: always at least one piece.
RECURSIVE SplitOn(_, _)
SplitOn(t, sep) ==
    IF \A i \in 1..Len(t) : t[i] # sep THEN <<t>>
    ELSE LET k == CHOOSE i \in 1..Len(t) :
                     t[i] = sep /\ \A j \in 1..(i - 1) : t[j] # sep
         IN  <<SubSeq(t, 1, k - 1)>> \o SplitOn(SubSeq(t, k + 1, Len(t)), sep)

\* c * n
Repeat(c, n) == [i \in 1..n |-> c]

StartsWith(t, p) == Len(t) >= Len(p) /\ SubSeq(t, 1, Len(p)) = p
EndsWith(t, p) ==
    Len(t) >= Len(p) /\ SubSeq(t, Len(t) - Len(p) + 1, Len(t)) = p

\* text.replace('*', '\*')
RECURSIVE EscapeStars(_)
EscapeStars(t) ==
    IF t = <<>> THEN <<>>
    ELSE (IF Head(t) = "*" THEN <<"\\", "*">> ELSE <<Head(t)>>)
         \o EscapeStars(Tail(t))

(***************************************************************************)
(* textwrap.fill with the defaults the writer leaves in place              *)
(* (replace_whitespace, drop_whitespace, break_long_words).  The texts of  *)
(* the model hold no tab and no hyphen, so expandtabs changes nothing and  *)
(* wordsep_re splits into maximal runs of whitespace and of other          *)
(* characters.                                                             *)
(***************************************************************************)

IsWs(c) == c \in {" ", "\n"}

\* TextWrapper._munge_whitespace
MungeWhitespace(t) == [i \in 1..Len(t) |-> IF IsWs(t[i]) THEN " " ELSE t[i]]

\* chunk.strip() == ''
IsBlank(chunk) == \A i \in 1..Len(chunk) : IsWs(chunk[i])

\* TextWrapper._split
RECURSIVE SplitChunks(_)
SplitChunks(t) ==
    IF t = <<>> THEN <<>>
    ELSE LET ws == IsWs(t[1])
             n  == CHOOSE k \in 1..Len(t) :
                       /\ \A i \in 1..k : IsWs(t[i]) = ws
                       /\ k = Len(t) \/ IsWs(t[k + 1]) # ws
         IN  <<SubSeq(t, 1, n)>> \o SplitChunks(SubSeq(t, n + 1, Len(t)))

\* The inner loop of _wrap_chunks: how many leading chunks fit in `width`.
RECURSIVE FitCount(_, _)
FitCount(chunks, width) ==
    IF chunks = <<>> \/ Len(Head(chunks)) > width THEN 0
    ELSE 1 + FitCount(Tail(chunks), width - Len(Head(chunks)))

\* TextWrapper._wrap_chunks with _handle_long_word (break_long_words=True).
RECURSIVE WrapChunks(_, _, _, _, _)
WrapChunks(chunks, lines, width, initial_indent, subsequent_indent) ==
    IF chunks = <<>> THEN lines
    ELSE
      LET indent == IF lines # <<>> THEN subsequent_indent ELSE initial_indent
          w      == width - Len(indent)
          ch     == IF IsBlank(Head(chunks)) /\ lines # <<>>
                    THEN Tail(chunks) ELSE chunks
          k      == FitCount(ch, w)
          cur    == SubSeq(ch, 1, k)
          rest   == SubSeq(ch, k + 1, Len(ch))
          cur_len == Len(Join(cur))
          long   == rest # <<>> /\ Len(Head(rest)) > w
          space_left == IF w < 1 THEN 1 ELSE w - cur_len
          cur2   == IF long
                    THEN Append(cur, SubSeq(Head(rest), 1, space_left))
                    ELSE cur
          rest2  == IF long
                    THEN <<SubSeq(Head(rest), space_left + 1, Len(Head(rest)))>>
                         \o Tail(rest)
                    ELSE rest
          cur3   == IF cur2 # <<>> /\ IsBlank(Last(cur2))
                    THEN Front(cur2) ELSE cur2
          lines2 == IF cur3 # <<>>
                    THEN Append(lines, indent \o Join(cur3)) ELSE lines
      IN  WrapChunks(rest2, lines2, width, initial_indent, subsequent_indent)

\* textwrap.wrap(text, width, initial_indent, subsequent_indent), width > 0.
TextwrapWrap(text, width, initial_indent, subsequent_indent) ==
    WrapChunks(SplitChunks(MungeWhitespace(text)), <<>>, width,
               initial_indent, subsequent_indent)

\* textwrap.fill(text, width=..., initial_indent=..., subsequent_indent=...)
TextwrapFill(text, width, initial_indent, subsequent_indent) ==
    JoinWith(<<"\n">>,
             TextwrapWrap(text, width, initial_indent, subsequent_indent))

(***************************************************************************)
(* Options and the translator object                                       *)
(***************************************************************************)

\* Python's None, and a value that is present.
None == <<>>
Some(x) == <<x>>

\* Options.wrap_length's default.
DefaultWrapLength == 79
\* Options.blockquote_indent's default.
DefaultBlockquoteIndent == 2
\* len(Options.bullet_character)
BulletTableLength == 6

\* The entries of the title tables of Options.__init__.
TitleTableLength == 6

\* Options.__init__, with wrap_length as configured before the walk.
OptionsInit(wrap_length) ==
    [ indentation_char  |-> " ",
      blockquote_indent |-> DefaultBlockquoteIndent,
      wrap_length       |-> wrap_length,
      bullet_character  |-> [i \in 1..BulletTableLength |-> "*"],
      title_chars       |-> <<"#", "*", "=", "-", "^", "\"">>,
      title_prefix      |-> <<<<>>, <<"\n">>, <<>>, <<>>, <<>>, <<>>>>,
      title_suffix      |-> [i \in 1..TitleTableLength |-> <<"\n">>],
      title_overline    |-> <<TRUE, TRUE, FALSE, FALSE, FALSE, FALSE>> ]

\* RSTTranslator.__init__.  n_indent and n_dedent count the calls of indent()
\* and dedent(); exc is the exception a handler ended with ("" for none).
TranslatorInit ==
    [ header |-> <<>>, title |-> <<>>, subtitle |-> <<>>, roles |-> <<>>,
      body |-> <<>>, footer |-> <<>>,
      section_level |-> 0,
      indentation_levels |-> <<0>>,
      indent_first_line |-> <<Some(<<>>)>>,
      spacer |-> <<>>,
      list_style_stack |-> <<>>,
      list_finished |-> FALSE,
      external_targets |-> [named |-> <<>>, anonymous |-> <<>>],
      buffer |-> <<>>,
      last_buffer_length |-> 0,
      custom_roles |-> <<>>,
      ignore_inlines |-> FALSE,
      table_buffer |-> None,
      n_indent |-> 0, n_dedent |-> 0, exc |-> "" ]

Raise(s, e) == [s EXCEPT !.exc = e]

RECURSIVE Sum(_)
Sum(ns) == IF ns = <<>> THEN 0 ELSE Head(ns) + Sum(Tail(ns))

\* property indentation_length
indentation_length(s) == Sum(s.indentation_levels)

\* property indentation
indentation(s) == Repeat(options.indentation_char, indentation_length(s))

\* property initial_indentation
initial_indentation(s) ==
    IF Last(s.indent_first_line) = None THEN indentation(s)
    ELSE Last(s.indent_first_line)[1]

\* property buffer_length
buffer_length(s) == Len(Join(s.buffer))

dedent(s) ==
    [s EXCEPT !.indent_first_line = Front(@),
              !.indentation_levels = Front(@),
              !.n_dedent = @ + 1]

\* indent(levels, first_line); first_line is None or Some(text).
indent(s, levels, first_line) ==
    [s EXCEPT !.indentation_levels = Append(@, levels),
              !.indent_first_line = Append(@, first_line),
              !.n_indent = @ + 1]

write_to_buffer(s, text) == [s EXCEPT !.buffer = Append(@, text)]

\* What textwrap.fill does with these arguments: it raises ValueError for a
\* width below 1, and never returns when the first line's indent is longer
\* than the width and the text starts with whitespace (the emptied chunk is
\* neither dropped nor consumed).
WrapOutcome(s, text, width) ==
    IF width <= 0 THEN "ValueError"
    ELSE IF /\ width - Len(initial_indentation(s)) < 0
            /\ text # <<>> /\ IsWs(text[1])
    THEN "hang"
    ELSE "ok"

\* A wrap that fills one column short of the width it is given.
MutWrapOneShort(s, text, width) ==
    TextwrapFill(text, width - 1, initial_indentation(s), indentation(s))

\* wrap(text, width): indent is never passed, so it is self.indentation.
wrap(s, text, width) ==
    TextwrapFill(text, width, initial_indentation(s), indentation(s))

render_buffer(s) ==
    LET text == Join(s.buffer)
        s1 == IF s.body # <<>> THEN [s EXCEPT !.body = Append(@, s.spacer)]
              ELSE s
        s2 == [s1 EXCEPT !.last_buffer_length = Len(text)]
    IN  IF WrapOutcome(s, text, options.wrap_length) # "ok"
        THEN Raise(s2, WrapOutcome(s, text, options.wrap_length))
        ELSE [s2 EXCEPT
                !.body = Append(@, wrap(s, text, options.wrap_length)
                                   \o <<"\n">>),
                !.buffer = <<>>]

\* astext()
astext(s) ==
    Join(s.header \o s.title \o s.subtitle \o s.roles \o s.body \o s.footer)

(***************************************************************************)
(* Nodes                                                                   *)
(***************************************************************************)

\* The attributes the handlers read; None or the empty text for an absent one.
NoAttr ==
    [ refuri |-> <<>>, name |-> <<>>, anonymous |-> FALSE, refid |-> <<>>,
      names |-> <<>>, classes |-> <<>>, morecols |-> None, colwidth |-> None,
      enumtype |-> <<>>, prefix |-> <<>>, suffix |-> <<>> ]

\* An inline node: its kind, its own text (a Text node), its attributes and
\* its children.
Inline(kind, a, kids) == [kind |-> kind, text |-> <<>>, a |-> a, kids |-> kids]
Text(t) == [kind |-> "Text", text |-> t, a |-> NoAttr, kids |-> <<>>]

\* Node.astext() of inline nodes: the texts of the leaves, joined.
RECURSIVE AsText(_)
AsText(items) ==
    IF items = <<>> THEN <<>>
    ELSE (IF Head(items).kind = "Text" THEN Head(items).text
          ELSE AsText(Head(items).kids))
         \o AsText(Tail(items))

(***************************************************************************)
(* docutils' walkabout: dispatch_visit, the children, dispatch_departure;   *)
(* SkipNode raised by a visit skips the children and the departure.         *)
(***************************************************************************)

Top == path[Len(path)]

\* The entered nodes after the innermost one has handed out its next child.
Advance ==
    [path EXCEPT ![Len(path)].n = @ + 1,
                 ![Len(path)].todo = IF @ = <<>> THEN @ ELSE Tail(@)]

Frame(kind, a, todo, text) ==
    [ kind |-> kind, n |-> 0, d0 |-> Len(self.indentation_levels),
      todo |-> todo, a |-> a, text |-> text, seen |-> <<>> ]

\* The entered nodes once the walk is through a child: the parent keeps the
\* children it has seen, as the tree does.
Through(nodes, child) ==
    IF nodes = <<>> THEN nodes
    ELSE [nodes EXCEPT ![Len(nodes)].seen = Append(@, child)]

Record(op, node) == [op |-> op, kind |-> node.kind, node |-> node, pre |-> self]

\* An exception leaves the walk where it is.
Abort(op, node, s2) ==
    /\ self' = s2
    /\ status' = s2.exc
    /\ last' = Record(op, node)
    /\ UNCHANGED <<path, visited, options, input>>

\* visit_<kind> returned: the node's children follow.
Enter(kind, a, todo, text, s2) ==
    IF s2.exc # "" THEN Abort("visit", Frame(kind, a, todo, text), s2)
    ELSE /\ self' = s2
         /\ path' = Append(Advance, Frame(kind, a, todo, text))
         /\ visited' = visited + 1
         /\ last' = Record("visit", Frame(kind, a, todo, text))
         /\ UNCHANGED <<status, options, input>>

\* visit_<kind> raised SkipNode (or the node is a leaf whose departure does
\* nothing): no children, no departure.
Skip(kind, a, text, s2) ==
    IF s2.exc # "" THEN Abort("visit", Frame(kind, a, <<>>, text), s2)
    ELSE /\ self' = s2
         /\ path' = Through(Advance, Frame(kind, a, <<>>, text))
         /\ visited' = visited + 1
         /\ last' = Record("skip", Frame(kind, a, <<>>, text))
         /\ UNCHANGED <<status, options, input>>

\* depart_<kind> of the innermost entered node.
Leave(s2) ==
    IF s2.exc # "" THEN Abort("depart", Top, s2)
    ELSE /\ self' = s2
         /\ path' = Through(Front(path), Top)
         /\ last' = Record("depart", Top)
         /\ UNCHANGED <<status, visited, options, input>>

Walking == status = "walking" /\ path # <<>>

\* Body elements, and the nodes that hold body elements.
BodyParents == {"document", "section", "block_quote", "list_item",
                "definition", "entry"}

\* The kinds of the nodes that are not inline.
BlockKinds ==
    { "paragraph", "block_quote", "literal_block", "bullet_list",
      "enumerated_list", "list_item", "definition_list",
      "definition_list_item", "term", "definition", "table", "tgroup",
      "colspec", "thead", "tbody", "row", "entry", "target" }

\* Levels a node of this kind needs below its parent to be well formed.
Height(kind) ==
    CASE kind \in {"bullet_list", "enumerated_list"} -> 2
      [] kind = "definition_list" -> 4
      [] kind = "definition_list_item" -> 3
      [] kind \in {"block_quote", "definition"} -> 2
      [] kind = "table" -> 5
      [] kind = "tgroup" -> 4
      [] kind \in {"thead", "tbody"} -> 3
      [] kind = "row" -> 2
      [] OTHER -> 1

\* A child of this kind may come next under the innermost entered node.
CanHold(kind, parents) ==
    /\ Walking
    /\ kind \in input.kinds
    /\ Top.kind \in parents
    /\ Top.todo = <<>>
    /\ Len(path) + Height(kind) <= input.depth
    /\ visited < input.nodes

CanEnter(kind, parents) ==
    /\ CanHold(kind, parents)
    /\ Top.n < input.kids[Top.kind]

\* The next inline child of the innermost entered node is of this kind.
NextInline(kind) ==
    /\ Walking
    /\ Top.todo # <<>>
    /\ Head(Top.todo).kind = kind

\* The fewest children the documents of the family give a node of this kind.
Least(kind) == IF kind \in DOMAIN input.least THEN input.least[kind] ELSE 0

CanLeave(kind) ==
    /\ Walking
    /\ Top.kind = kind
    /\ Top.todo = <<>>
    /\ Top.n >= Least(kind)

(***************************************************************************)
(* Handlers: text, paragraphs, block quotes                                *)
(***************************************************************************)

visit_Text(s, text) == write_to_buffer(s, EscapeStars(text))

VisitText ==
    /\ NextInline("Text")
    /\ Skip("Text", NoAttr, Head(Top.todo).text,
            visit_Text(self, Head(Top.todo).text))

\* visit_paragraph; text is node.astext().
visit_paragraph(s, text) ==
    IF Len(text) > 1 /\ text[2] = "." /\ IsAlpha(text[1])
    THEN write_to_buffer(s, <<"\\">>)
    ELSE s

VisitParagraph ==
    /\ CanEnter("paragraph", BodyParents)
    /\ \E content \in input.paragraphs :
         Enter("paragraph", NoAttr, content, AsText(content),
               visit_paragraph(self, AsText(content)))

visit_block_quote(s) == indent(s, options.blockquote_indent, None)
depart_block_quote(s) == dedent(s)

VisitBlockQuote ==
    /\ CanEnter("block_quote", BodyParents)
    /\ Enter("block_quote", NoAttr, <<>>, <<>>, visit_block_quote(self))

DepartBlockQuote ==
    /\ CanLeave("block_quote")
    /\ Top.n >= 1
    /\ Leave(depart_block_quote(self))

(***************************************************************************)
(* Handlers: tables                                                        *)
(***************************************************************************)

\* int(a / b) for b > 0: Python's int() truncates toward zero.
IntDiv(a, b) == IF a >= 0 THEN a \div b ELSE -((-a) \div b)

\* The width render_buffer_to_table wraps the current cell to.  Python's
\* indices count from 0 (col_idx, row_idx); sequences here count from 1.
cell_wrapping(s) ==
    LET tb == s.table_buffer[1]
        spec == tb.column_spec[tb.processing.col + 1]
    IN  IF spec.declared THEN spec.wrapping
        ELSE IntDiv(options.wrap_length - indentation_length(s) - 1,
                    Len(tb.column_spec)) - 3

\* table_buffer['content'][row_idx][col_idx] += lines
AddToCell(tb, lines) ==
    [tb EXCEPT !.content[tb.processing.row + 1][tb.processing.col + 1] =
                   @ \o lines]

CurrentCell(tb) == tb.content[tb.processing.row + 1][tb.processing.col + 1]

render_buffer_to_table(s) ==
    LET tb == s.table_buffer[1]
        wrapping == cell_wrapping(s)
        text == Join(s.buffer)
        s1 == [s EXCEPT !.last_buffer_length = Len(text)]
        lines == SplitOn(wrap(s, text, wrapping), "\n")
        tb1 == IF CurrentCell(tb) # <<>> THEN AddToCell(tb, <<<<>>>>) ELSE tb
    IN  IF WrapOutcome(s, text, wrapping) # "ok"
        THEN Raise(s1, WrapOutcome(s, text, wrapping))
        ELSE [s1 EXCEPT !.table_buffer = Some(AddToCell(tb1, lines)),
                        !.buffer = <<>>]

RECURSIVE MaxLen(_)
MaxLen(lines) ==
    IF lines = <<>> THEN 0
    ELSE LET m == MaxLen(Tail(lines))
         IN  IF Len(Head(lines)) > m THEN Len(Head(lines)) ELSE m

\* render_table's column_wrapping: the declared wrapping, or the longest line
\* of the column's cells.
column_wrapping(tb) ==
    [c \in 1..Len(tb.column_spec) |->
        IF tb.column_spec[c].declared THEN tb.column_spec[c].wrapping
        ELSE MaxLen(Join([r \in 1..Len(tb.content) |-> tb.content[r][c]]))]

\* The line render_table_hline appends.
hline(cw, double) ==
    <<"+">> \o Join([c \in 1..Len(cw) |->
                       Repeat(IF double THEN "=" ELSE "-", cw[c] + 2)
                       \o <<"+">>])
    \o <<"\n">>

\* One output line of a row: line_idx counts from 1 here.
row_line(row, cw, line_idx) ==
    <<"|">> \o Join([c \in 1..Len(cw) |->
                       LET line == IF Len(row[c]) >= line_idx
                                   THEN row[c][line_idx] ELSE <<>>
                           rpad == Repeat(" ", cw[c] - Len(line))
                       IN  <<" ">> \o line \o rpad \o <<" ", "|">>])
    \o <<"\n">>

\* max(len(cell) for cell in row)
line_count(row) == MaxLen(row)

MutHeadingOffByOne(tb, r) == tb.heading_length + 1 = r - 1

\* The rule after row r (counted from 1) is double: heading_length == row_idx.
is_double(tb, r) == tb.heading_length = r - 1

\* What render_table appends for the rows r.. of the table.
RECURSIVE render_rows(_, _, _)
render_rows(tb, cw, r) ==
    IF r > Len(tb.content) THEN <<>>
    ELSE [i \in 1..line_count(tb.content[r]) |->
             row_line(tb.content[r], cw, i)]
         \o <<hline(cw, is_double(tb, r))>>
         \o render_rows(tb, cw, r + 1)

render_table(s) ==
    LET s1 == IF s.body # <<>> THEN [s EXCEPT !.body = Append(@, s.spacer)]
              ELSE s
    IN  IF s.table_buffer = None THEN Raise(s1, "TypeError")
        ELSE LET tb == s.table_buffer[1]
                 cw == column_wrapping(tb)
             IN  [s1 EXCEPT !.body = @ \o <<hline(cw, FALSE)>>
                                       \o render_rows(tb, cw, 1),
                            !.table_buffer = None]

visit_table(s) ==
    [s EXCEPT !.table_buffer =
        Some([ content |-> <<>>, column_spec |-> <<>>, heading_length |-> -1,
               processing |-> [col |-> -1, row |-> -1, is_header |-> FALSE] ])]

depart_table(s) == render_table(s)

\* visit_colspec; colwidth is None or Some(width).
visit_colspec(s, colwidth) ==
    IF s.table_buffer = None THEN Raise(s, "TypeError")
    ELSE [s EXCEPT !.table_buffer[1].column_spec =
            Append(@, IF colwidth # None
                      THEN [declared |-> TRUE, width |-> colwidth[1],
                            wrapping |-> colwidth[1] - 2]
                      ELSE [declared |-> FALSE, width |-> 0, wrapping |-> 0])]

visit_thead(s) ==
    IF s.table_buffer = None THEN Raise(s, "TypeError")
    ELSE [s EXCEPT !.table_buffer[1].processing.is_header = TRUE]

depart_thead(s) ==
    IF s.table_buffer = None THEN Raise(s, "TypeError")
    ELSE [s EXCEPT !.table_buffer[1].processing.is_header = FALSE]

visit_row(s) ==
    IF s.table_buffer = None THEN Raise(s, "TypeError")
    ELSE [s EXCEPT
            !.table_buffer[1].processing.row = @ + 1,
            !.table_buffer[1].processing.col = -1,
            !.table_buffer[1].content =
                Append(@, [c \in 1..Len(s.table_buffer[1].column_spec)
                             |-> <<>>])]

\* depart_row counting every row, whether or not a thead is open.
MutDepartRowCountsEveryRow(s) ==
    IF s.table_buffer = None THEN Raise(s, "TypeError")
    ELSE [s EXCEPT !.table_buffer[1].heading_length = @ + 1]

depart_row(s) ==
    IF s.table_buffer = None THEN Raise(s, "TypeError")
    ELSE IF s.table_buffer[1].processing.is_header
    THEN [s EXCEPT !.table_buffer[1].heading_length = @ + 1]
    ELSE s

visit_entry(s) ==
    IF s.table_buffer = None THEN Raise(s, "TypeError")
    ELSE [s EXCEPT !.table_buffer[1].processing.col = @ + 1]

\* depart_entry; morecols is None or Some(count).
depart_entry(s, morecols) ==
    IF morecols = None THEN s
    ELSE IF s.table_buffer = None THEN Raise(s, "TypeError")
    ELSE [s EXCEPT !.table_buffer[1].processing.col = @ + morecols[1]]

\* A table holds one tgroup: its colspecs, an optional thead, one tbody.
VisitTable ==
    /\ CanEnter("table", BodyParents)
    /\ Enter("table", NoAttr, <<>>, <<>>, visit_table(self))

DepartTable ==
    /\ CanLeave("table")
    /\ Top.n = 1
    /\ Leave(depart_table(self))

\* visit_tgroup and depart_tgroup are `pass`.
VisitTgroup ==
    /\ CanHold("tgroup", {"table"})
    /\ Top.n = 0
    /\ Enter("tgroup", NoAttr, <<>>, <<>>, self)

DepartTgroup ==
    /\ CanLeave("tgroup")
    /\ Top.seen # <<>>
    /\ Last(Top.seen).kind = "tbody"
    /\ Leave(self)

VisitColspec ==
    /\ CanHold("colspec", {"tgroup"})
    /\ \A i \in 1..Len(Top.seen) : Top.seen[i].kind = "colspec"
    /\ Top.n < input.cols
    /\ \E w \in input.colwidths :
         Skip("colspec", [NoAttr EXCEPT !.colwidth = w], <<>>,
              visit_colspec(self, w))

VisitThead ==
    /\ CanHold("thead", {"tgroup"})
    /\ Top.seen # <<>>
    /\ Last(Top.seen).kind = "colspec"
    /\ Enter("thead", NoAttr, <<>>, <<>>, visit_thead(self))

DepartThead ==
    /\ CanLeave("thead")
    /\ Top.n >= 1
    /\ Leave(depart_thead(self))

\* visit_tbody and depart_tbody are `pass`.
VisitTbody ==
    /\ CanHold("tbody", {"tgroup"})
    /\ Top.seen # <<>>
    /\ Last(Top.seen).kind \in {"colspec", "thead"}
    /\ Enter("tbody", NoAttr, <<>>, <<>>, self)

DepartTbody ==
    /\ CanLeave("tbody")
    /\ Top.n >= 1
    /\ Leave(self)

\* The rows of the table so far, when a thead or tbody is the innermost
\* entered node, and the columns of that table.
TableRows ==
    Top.n + Sum([i \in 1..Len(path[Len(path) - 1].seen) |->
                    Len(path[Len(path) - 1].seen[i].seen)])
TableColumns == Len(self.table_buffer[1].column_spec)

VisitRow ==
    /\ CanHold("row", {"thead", "tbody"})
    /\ (TableRows + 1) * TableColumns <= input.cells
    /\ Enter("row", NoAttr, <<>>, <<>>, visit_row(self))

\* The columns of the table whose row is the innermost entered node, and the
\* columns the entries of that row take up so far.
RowColumns ==
    Cardinality({i \in 1..Len(path[Len(path) - 2].seen) :
                    path[Len(path) - 2].seen[i].kind = "colspec"})
RowFilled ==
    Sum([i \in 1..Len(Top.seen) |->
            1 + (IF Top.seen[i].a.morecols = None THEN 0
                 ELSE Top.seen[i].a.morecols[1])])

\* A row's entries span the columns of the table.
DepartRow ==
    /\ CanLeave("row")
    /\ RowFilled = RowColumns
    /\ Leave(depart_row(self))

VisitEntry ==
    /\ CanHold("entry", {"row"})
    /\ \E more \in {None} \cup {Some(m) : m \in 1..(input.cols - 1)} :
         /\ RowFilled + 1 + (IF more = None THEN 0 ELSE more[1]) <= RowColumns
         /\ Enter("entry", [NoAttr EXCEPT !.morecols = more], <<>>, <<>>,
                  visit_entry(self))

DepartEntry ==
    /\ CanLeave("entry")
    /\ Leave(depart_entry(self, Top.a.morecols))

(***************************************************************************)
(* Handlers: paragraphs' departure, literal blocks                         *)
(***************************************************************************)

\* `if self.table_buffer:` (a dict with keys is true, None is false).
in_table(s) == s.table_buffer # None

depart_paragraph(s) ==
    LET s1 == IF in_table(s) THEN render_buffer_to_table(s)
              ELSE render_buffer(s)
    IN  IF s1.exc # "" THEN s1
        ELSE [s1 EXCEPT !.spacer = <<"\n">>,
                        !.indent_first_line[Len(s1.indent_first_line)] = None]

DepartParagraph ==
    /\ CanLeave("paragraph")
    /\ Leave(depart_paragraph(self))

\* The loop of visit_literal_block over node.astext().split('\n').
literal_lines(s, text, to_table) ==
    LET lines == SplitOn(text, "\n")
    IN  IF to_table
        THEN [s EXCEPT !.table_buffer[1] =
                AddToCell(@, [i \in 1..Len(lines) |->
                                 indentation(s) \o lines[i]])]
        ELSE [s EXCEPT !.body =
                @ \o [i \in 1..Len(lines) |->
                         indentation(s) \o lines[i] \o <<"\n">>]]

\* visit_literal_block; classes is node['classes'], text is node.astext().
visit_literal_block(s, classes, text) ==
    LET lastb == Last(s.body)
        patch == /\ s.body # <<>> /\ Len(lastb) > 1
                 /\ lastb[Len(lastb) - 1] = ":"
        s1 == IF classes # <<>>
              THEN IF Len(classes) < 2 THEN Raise(s, "IndexError")
                   ELSE write_to_buffer(s, <<".", ".", " ", "c", "o", "d", "e",
                                             ":", ":", " ">> \o classes[2])
              ELSE IF patch
              THEN [s EXCEPT
                      !.body[Len(s.body)] =
                          SubSeq(lastb, 1, Len(lastb) - 2) \o <<":">>
                          \o SubSeq(lastb, Len(lastb) - 1, Len(lastb)),
                      !.spacer = <<>>]
              ELSE [write_to_buffer(s, <<":", ":">>) EXCEPT !.spacer = <<"\n">>]
        s2 == IF s1.exc # "" THEN s1
              ELSE IF in_table(s1)
              THEN LET t == render_buffer_to_table(s1)
                   IN  IF t.exc # "" THEN t
                       ELSE [t EXCEPT !.table_buffer[1] =
                                          AddToCell(@, <<<<>>>>)]
              ELSE LET t == render_buffer(s1)
                   IN  IF t.exc # "" THEN t
                       ELSE [t EXCEPT !.body = Append(@, t.spacer)]
    IN  IF s2.exc # "" THEN s2
        ELSE dedent(literal_lines(
                 indent([s2 EXCEPT !.spacer = <<"\n">>], 2, None),
                 text, in_table(s2)))

VisitLiteralBlock ==
    /\ CanEnter("literal_block", BodyParents)
    /\ \E lit \in input.literals :
         Skip("literal_block", [NoAttr EXCEPT !.classes = lit.classes],
              lit.text, visit_literal_block(self, lit.classes, lit.text))

(***************************************************************************)
(* Handlers: bullet and enumerated lists                                   *)
(***************************************************************************)

\* A frame of list_style_stack: a bullet character, or the list
\* [enumtype, prefix, suffix, count] of an enumeration.
BulletStyle(char) ==
    [is_str |-> TRUE, char |-> char, enumtype |-> <<>>, prefix |-> <<>>,
     suffix |-> <<>>, count |-> 0]
EnumStyle(enumtype, prefix, suffix) ==
    [is_str |-> FALSE, char |-> "", enumtype |-> enumtype, prefix |-> prefix,
     suffix |-> suffix, count |-> 0]

MutBulletList(s) ==
    LET s1 == [s EXCEPT !.body = Append(@, s.spacer), !.list_finished = FALSE]
    IN  [s1 EXCEPT !.list_style_stack = Append(@, BulletStyle("-")),
                   !.spacer = <<>>]

\* visit_bullet_list; property bullet_character indexes the option table by
\* len(list_style_stack), from 0.
visit_bullet_list(s) ==
    LET s1 == [s EXCEPT !.body = Append(@, s.spacer), !.list_finished = FALSE]
    IN  IF Len(s.list_style_stack) >= Len(options.bullet_character)
        THEN Raise(s1, "IndexError")
        ELSE [s1 EXCEPT
                !.list_style_stack =
                    Append(@, BulletStyle(
                        options.bullet_character[Len(s.list_style_stack) + 1])),
                !.spacer = <<>>]

depart_bullet_list(s) ==
    [s EXCEPT !.list_style_stack = Front(@),
              !.list_finished = TRUE,
              !.spacer = <<"\n">>]

visit_enumerated_list(s, enumtype, prefix, suffix) ==
    [s EXCEPT !.body = Append(@, s.spacer),
              !.list_finished = FALSE,
              !.list_style_stack = Append(@, EnumStyle(enumtype, prefix, suffix)),
              !.spacer = <<>>]

depart_enumerated_list(s) ==
    [s EXCEPT !.list_style_stack = Front(@),
              !.list_finished = TRUE,
              !.spacer = <<"\n">>]

\* str(n) for n >= 0
RECURSIVE Str(_)
Str(n) ==
    IF n < 10 THEN <<Chr(48 + n)>>
    ELSE Str(n \div 10) \o <<Chr(48 + (n % 10))>>

\* docutils.utils.roman: romanNumeralMap and toRoman (0 < n < 5000).
romanNumeralMap ==
    << <<<<"M">>, 1000>>, <<<<"C", "M">>, 900>>, <<<<"D">>, 500>>,
       <<<<"C", "D">>, 400>>, <<<<"C">>, 100>>, <<<<"X", "C">>, 90>>,
       <<<<"L">>, 50>>, <<<<"X", "L">>, 40>>, <<<<"X">>, 10>>,
       <<<<"I", "X">>, 9>>, <<<<"V">>, 5>>, <<<<"I", "V">>, 4>>,
       <<<<"I">>, 1>> >>

RECURSIVE toRomanFrom(_, _)
toRomanFrom(n, i) ==
    IF n = 0 THEN <<>>
    ELSE IF n >= romanNumeralMap[i][2]
    THEN romanNumeralMap[i][1] \o toRomanFrom(n - romanNumeralMap[i][2], i)
    ELSE toRomanFrom(n, i + 1)

toRoman(n) == toRomanFrom(n, 1)

\* The counter text visit_list_item builds for an enumeration frame whose
\* count is already incremented.
enum_point(style) ==
    LET p1 == IF EndsWith(style.enumtype, <<"a", "l", "p", "h", "a">>)
              THEN <<Chr(style.count + 97 - 1)>>
              ELSE IF EndsWith(style.enumtype, <<"r", "o", "m", "a", "n">>)
              THEN toRoman(style.count)
              ELSE Str(style.count)
        p2 == IF StartsWith(style.enumtype, <<"u", "p", "p", "e", "r">>)
              THEN Upper(p1) ELSE p1
    IN  style.prefix \o p2 \o style.suffix

\* A visit_list_item that counts the item in every open enumerated list.
MutListItemCountsAllLists(s) ==
    LET n == Len(s.list_style_stack)
        s3 == [s EXCEPT !.body = Append(@, s.spacer),
                        !.list_style_stack =
                            [k \in 1..n |->
                                IF s.list_style_stack[k].is_str
                                THEN s.list_style_stack[k]
                                ELSE [s.list_style_stack[k]
                                        EXCEPT !.count = @ + 1]]]
    IN  IF n = 0 THEN Raise(s, "IndexError")
        ELSE [indent(s3, 3, Some(indentation(s3) \o <<"*", " ">>))
                EXCEPT !.spacer = <<>>]

visit_list_item(s) ==
    LET s1 == [s EXCEPT !.body = Append(@, s.spacer)]
        s2 == IF s1.list_finished
              THEN [s1 EXCEPT !.body = Append(@, <<"\n">>),
                              !.list_finished = FALSE]
              ELSE s1
        n  == Len(s2.list_style_stack)
    IN  IF n = 0 THEN Raise(s2, "IndexError")
        ELSE IF s2.list_style_stack[n].is_str
        THEN [indent(s2, 2, Some(indentation(s2)
                                 \o <<s2.list_style_stack[n].char>> \o <<" ">>))
                EXCEPT !.spacer = <<>>]
        ELSE LET s3 == [s2 EXCEPT !.list_style_stack[n].count = @ + 1]
                 point == enum_point(s3.list_style_stack[n])
             IN  [indent(s3, 3, Some(indentation(s3) \o point \o <<" ">>))
                    EXCEPT !.spacer = <<>>]

MutDepartListItemNoDedent(s) ==
    IF s.last_buffer_length > options.wrap_length
    THEN [s EXCEPT !.spacer = <<"\n">>]
    ELSE [s EXCEPT !.spacer = <<>>]

\* A depart_list_item that measures the buffer as it is now, after the
\* commits have emptied it.
MutSpacerFromBuffer(s) ==
    LET s1 == dedent(s)
    IN  IF buffer_length(s1) > options.wrap_length
        THEN [s1 EXCEPT !.spacer = <<"\n">>]
        ELSE [s1 EXCEPT !.spacer = <<>>]

depart_list_item(s) ==
    LET s1 == dedent(s)
    IN  IF s1.last_buffer_length > options.wrap_length
        THEN [s1 EXCEPT !.spacer = <<"\n">>]
        ELSE [s1 EXCEPT !.spacer = <<>>]

VisitBulletList ==
    /\ CanEnter("bullet_list", BodyParents)
    /\ Enter("bullet_list", NoAttr, <<>>, <<>>, visit_bullet_list(self))

DepartBulletList ==
    /\ CanLeave("bullet_list")
    /\ Top.n >= 1
    /\ Leave(depart_bullet_list(self))

VisitEnumeratedList ==
    /\ CanEnter("enumerated_list", BodyParents)
    /\ \E e \in input.enums :
         Enter("enumerated_list",
               [NoAttr EXCEPT !.enumtype = e.enumtype, !.prefix = e.prefix,
                              !.suffix = e.suffix],
               <<>>, <<>>,
               visit_enumerated_list(self, e.enumtype, e.prefix, e.suffix))

DepartEnumeratedList ==
    /\ CanLeave("enumerated_list")
    /\ Top.n >= 1
    /\ Leave(depart_enumerated_list(self))

VisitListItem ==
    /\ CanEnter("list_item", {"bullet_list", "enumerated_list"})
    /\ Enter("list_item", NoAttr, <<>>, <<>>, visit_list_item(self))

DepartListItem ==
    /\ CanLeave("list_item")
    /\ Leave(depart_list_item(self))

(***************************************************************************)
(* Handlers: definition lists                                              *)
(***************************************************************************)

visit_definition_list(s) == [s EXCEPT !.spacer = <<"\n">>]

visit_definition(s) ==
    LET s1 == render_buffer(s)
    IN  IF s1.exc # "" THEN s1
        ELSE indent([s1 EXCEPT !.spacer = <<>>], 2, None)

depart_definition(s) == dedent(s)

VisitDefinitionList ==
    /\ CanEnter("definition_list", BodyParents)
    /\ Enter("definition_list", NoAttr, <<>>, <<>>, visit_definition_list(self))

\* depart_definition_list is `pass`.
DepartDefinitionList ==
    /\ CanLeave("definition_list")
    /\ Top.n >= 1
    /\ Leave(self)

\* visit_definition_list_item and its departure are `pass`.
VisitDefinitionListItem ==
    /\ CanEnter("definition_list_item", {"definition_list"})
    /\ Enter("definition_list_item", NoAttr, <<>>, <<>>, self)

DepartDefinitionListItem ==
    /\ CanLeave("definition_list_item")
    /\ Top.n = 2
    /\ Leave(self)

\* visit_term and depart_term are `pass`; the term is the item's first child.
VisitTerm ==
    /\ CanEnter("term", {"definition_list_item"})
    /\ Top.n = 0
    /\ \E content \in input.paragraphs :
         Enter("term", NoAttr, content, AsText(content), self)

DepartTerm ==
    /\ CanLeave("term")
    /\ Leave(self)

\* The definition follows the term.
VisitDefinition ==
    /\ CanEnter("definition", {"definition_list_item"})
    /\ Top.n = 1
    /\ Enter("definition", NoAttr, <<>>, <<>>, visit_definition(self))

DepartDefinition ==
    /\ CanLeave("definition")
    /\ Top.n >= 1
    /\ Leave(depart_definition(self))

(***************************************************************************)
(* Handlers: inline markup and roles                                       *)
(***************************************************************************)

\* The visit_* / depart_* pairs that only write delimiters to the buffer.
simple_inline ==
    [ emphasis        |-> <<<<"*">>, <<"*">>>>,
      strong          |-> <<<<"*", "*">>, <<"*", "*">>>>,
      abbreviation    |-> <<<<":", "a", "b", "b", "r", "e", "v", "i", "a", "t", "i", "o", "n", ":", BQ>>, <<BQ>>>>,
      acronym         |-> <<<<":", "a", "c", "r", "o", "n", "y", "m", ":", BQ>>, <<BQ>>>>,
      subscript       |-> <<<<":", "s", "u", "b", "s", "c", "r", "i", "p", "t", ":", BQ>>, <<BQ>>>>,
      superscript     |-> <<<<":", "s", "u", "p", "e", "r", "s", "c", "r", "i", "p", "t", ":", BQ>>, <<BQ>>>>,
      math            |-> <<<<":", "m", "a", "t", "h", ":", BQ>>, <<BQ>>>>,
      title_reference |-> <<<<":", "t", "i", "t", "l", "e", "-", "r", "e", "f", "e", "r", "e", "n", "c", "e", ":", BQ>>, <<BQ>>>> ]

VisitSimpleInline ==
    \E kind \in DOMAIN simple_inline :
      /\ NextInline(kind)
      /\ Enter(kind, NoAttr, Head(Top.todo).kids, <<>>,
               write_to_buffer(self, simple_inline[kind][1]))

DepartSimpleInline ==
    \E kind \in DOMAIN simple_inline :
      /\ CanLeave(kind)
      /\ Leave(write_to_buffer(self, simple_inline[kind][2]))

Contains(seq, x) == \E i \in 1..Len(seq) : seq[i] = x

\* A register_role that declares the role whether or not it is registered.
MutRegisterRoleAgain(s, role, opts) ==
    [s EXCEPT !.custom_roles = Append(@, role),
              !.roles = Append(@, <<".", ".", " ", "r", "o", "l", "e", ":", ":", " ">>
                                  \o role \o <<"\n">>)]

\* register_role(role, options); options is None ({}) or Some(language), the
\* only option the writer ever passes.
register_role(s, role, opts) ==
    IF Contains(s.custom_roles, role) THEN s
    ELSE LET s1 == [s EXCEPT !.custom_roles = Append(@, role)]
             head == <<".", ".", " ", "r", "o", "l", "e", ":", ":", " ">> \o role \o <<"\n">>
         IN  IF opts = None
             THEN [s1 EXCEPT !.roles = Append(@, head)]
             ELSE LET s2 == indent(s1, 2, None)
                      text == head \o indentation(s2) \o <<":", "l", "a", "n", "g", "u", "a", "g", "e", ":", " ">>
                              \o opts[1] \o <<"\n">>
                  IN  [dedent(s2) EXCEPT !.roles = Append(@, text)]

\* visit_literal; classes is node.get('classes', []).
visit_literal(s, classes) ==
    IF Len(classes) > 1
    THEN LET s1 == register_role(s, classes[2] \o <<"(", "c", "o", "d", "e", ")">>,
                                 IF Len(classes) = 3 THEN Some(classes[3])
                                 ELSE None)
         IN  [write_to_buffer(s1, <<":">> \o classes[2] \o <<":", BQ>>)
                EXCEPT !.ignore_inlines = TRUE]
    ELSE write_to_buffer(s, <<BQ, BQ>>)

depart_literal(s, classes) ==
    IF Len(classes) > 1
    THEN [write_to_buffer(s, <<BQ>>) EXCEPT !.ignore_inlines = FALSE]
    ELSE write_to_buffer(s, <<BQ, BQ>>)

VisitLiteral ==
    /\ NextInline("literal")
    /\ Enter("literal", Head(Top.todo).a, Head(Top.todo).kids, <<>>,
             visit_literal(self, Head(Top.todo).a.classes))

DepartLiteral ==
    /\ CanLeave("literal")
    /\ Leave(depart_literal(self, Top.a.classes))

RECURSIVE register_roles(_, _)
register_roles(s, classes) ==
    IF classes = <<>> THEN s
    ELSE register_roles(register_role(s, Head(classes), None), Tail(classes))

visit_inline(s, classes) ==
    IF s.ignore_inlines THEN s
    ELSE write_to_buffer(register_roles(s, classes),
                         <<":">> \o JoinWith(<<" ">>, classes) \o <<":", BQ>>)

depart_inline(s) ==
    IF s.ignore_inlines THEN s ELSE write_to_buffer(s, <<BQ>>)

VisitInline ==
    /\ NextInline("inline")
    /\ Enter("inline", Head(Top.todo).a, Head(Top.todo).kids, <<>>,
             visit_inline(self, Head(Top.todo).a.classes))

DepartInline ==
    /\ CanLeave("inline")
    /\ Leave(depart_inline(self))

\* visit_classifier; depart_classifier is `pass`.
visit_classifier(s) == write_to_buffer(s, <<" ", ":", " ">>)

(***************************************************************************)
(* Handlers: references and targets                                        *)
(***************************************************************************)

\* pep_file_url_template.index('%') for docutils' 'pep-%04d'.
PepTemplateIndex == 4
\* Inliner.rfc_url.index('%') for docutils' 'rfc%d.html'.
RfcTemplateIndex == 3
\* len(rfc_template) - rfc_template.index('.')
RfcTemplateTail == 5

is_pep(refuri) == StartsWith(refuri, input.settings.pep_base_url)
is_rfc(refuri) == StartsWith(refuri, input.settings.rfc_base_url)

\* visit_reference raises SkipNode for a PEP or an RFC reference.
reference_skips(a) == a.refuri # <<>> /\ (is_pep(a.refuri) \/ is_rfc(a.refuri))

visit_reference(s, a) ==
    IF a.refuri = <<>> THEN write_to_buffer(s, <<BQ>>)
    ELSE IF is_pep(a.refuri)
    THEN write_to_buffer(s,
            <<":", "p", "e", "p", "-", "r", "e", "f", "e", "r", "e", "n", "c", "e", ":", BQ>>
            \o SubSeq(a.refuri,
                      Len(input.settings.pep_base_url) + PepTemplateIndex + 1,
                      Len(a.refuri))
            \o <<BQ>>)
    ELSE IF is_rfc(a.refuri)
    THEN write_to_buffer(s,
            <<":", "r", "f", "c", "-", "r", "e", "f", "e", "r", "e", "n", "c", "e", ":", BQ>>
            \o SubSeq(a.refuri,
                      Len(input.settings.rfc_base_url) + RfcTemplateIndex + 1,
                      Len(a.refuri) - RfcTemplateTail)
            \o <<BQ>>)
    ELSE IF a.name # <<>> THEN write_to_buffer(s, <<BQ>>)
    ELSE s

depart_reference(s, a) ==
    IF a.refuri = <<>> \/ a.name # <<>>
    THEN LET s1 == write_to_buffer(s, <<BQ, "_">>)
         IN  IF a.anonymous THEN write_to_buffer(s1, <<"_">>) ELSE s1
    ELSE s

VisitReference ==
    /\ NextInline("reference")
    /\ IF reference_skips(Head(Top.todo).a)
       THEN Skip("reference", Head(Top.todo).a, AsText(Head(Top.todo).kids),
                 visit_reference(self, Head(Top.todo).a))
       ELSE Enter("reference", Head(Top.todo).a, Head(Top.todo).kids,
                  AsText(Head(Top.todo).kids),
                  visit_reference(self, Head(Top.todo).a))

DepartReference ==
    /\ CanLeave("reference")
    /\ Leave(depart_reference(self, Top.a))

\* a < b for str: by code points, a proper prefix first.
LexLess(a, b) ==
    \E k \in 1..(Len(b)) :
       /\ \A i \in 1..(k - 1) : i <= Len(a) /\ a[i] = b[i]
       /\ \/ k = Len(a) + 1
          \/ k <= Len(a) /\ Ord(a[k]) < Ord(b[k])

RECURSIVE SortedSet(_)
SortedSet(S) ==
    IF S = {} THEN <<>>
    ELSE LET m == CHOOSE x \in S : \A y \in S \ {x} : LexLess(x, y)
         IN  <<m>> \o SortedSet(S \ {m})

Range(seq) == {seq[i] : i \in 1..Len(seq)}

\* sorted(names) for a list of distinct texts.
sorted(names) == SortedSet(Range(names))

\* The loop of visit_target over node.get('names').
RECURSIVE add_names(_, _)
add_names(targets, names) ==
    IF names = <<>> THEN targets
    ELSE add_names(IF Contains(targets, Head(names)) THEN targets
                   ELSE Append(targets, Head(names)),
                   Tail(names))

\* The name visit_target finds for refid: that of the first reference node of
\* the document with this refid ('' when there is none).
ref_name(refid) ==
    LET refs == input.references
        hits == {i \in 1..Len(refs) :
                    refs[i].refid # <<>> /\ refs[i].refid = refid}
    IN  IF hits = {} THEN <<>>
        ELSE refs[CHOOSE i \in hits : \A j \in hits : i <= j].name

\* How visit_target ends: it returns for an inline target (the children and
\* depart_target follow) and raises SkipNode otherwise.
target_is_inline(text) == text # <<>>

\* A visit_target that writes the target's line whether or not it found a
\* name for it.
MutTargetWithoutNameCheck(s, a, text) ==
    IF target_is_inline(text) THEN write_to_buffer(s, <<"_", BQ>>)
    ELSE IF a.refid # <<>>
    THEN render_buffer(write_to_buffer(s,
             <<".", ".", " ", "_", BQ>> \o ref_name(a.refid) \o <<BQ, ":">>))
    ELSE s

\* visit_target; text is node.astext().
visit_target(s, a, text) ==
    IF target_is_inline(text) THEN write_to_buffer(s, <<"_", BQ>>)
    ELSE IF a.refid # <<>>
    THEN IF ref_name(a.refid) = <<>> THEN s
         ELSE render_buffer(write_to_buffer(s,
                  <<".", ".", " ", "_", BQ>> \o ref_name(a.refid) \o <<BQ, ":">>))
    ELSE LET et == s.external_targets
             anon == IF a.anonymous THEN Append(et.anonymous, a.refuri)
                     ELSE et.anonymous
             named == IF a.refuri \in DOMAIN et.named THEN et.named
                      ELSE et.named @@ (a.refuri :> <<>>)
         IN  [s EXCEPT !.external_targets =
                [anonymous |-> anon,
                 named |-> [named EXCEPT ![a.refuri] = add_names(@, a.names)]]]

depart_target(s) == write_to_buffer(s, <<BQ>>)

\* A target among the body elements.
VisitTarget ==
    /\ CanEnter("target", BodyParents)
    /\ \E a \in input.targets :
         Skip("target", a, <<>>, visit_target(self, a, <<>>))

\* A target among the inline children of a paragraph.
VisitInlineTarget ==
    /\ NextInline("target")
    /\ IF target_is_inline(AsText(Head(Top.todo).kids))
       THEN Enter("target", Head(Top.todo).a, Head(Top.todo).kids,
                  AsText(Head(Top.todo).kids),
                  visit_target(self, Head(Top.todo).a,
                               AsText(Head(Top.todo).kids)))
       ELSE Skip("target", Head(Top.todo).a, <<>>,
                 visit_target(self, Head(Top.todo).a, <<>>))

DepartTarget ==
    /\ CanLeave("target")
    /\ Leave(depart_target(self))

\* A first loop that hoists the named definitions before every anonymous
\* line of their URI.
RECURSIVE MutHoistEveryTime(_, _, _)
MutHoistEveryTime(anonymous, named, skip_uris) ==
    IF anonymous = <<>> THEN [lines |-> <<>>, skip_uris |-> skip_uris]
    ELSE LET uri == Head(anonymous)
             names == IF uri \in DOMAIN named THEN sorted(named[uri]) ELSE <<>>
             rest == MutHoistEveryTime(Tail(anonymous), named,
                                       skip_uris \cup {uri})
         IN  [lines |-> [i \in 1..Len(names) |->
                            <<".", ".", " ", "_", BQ>> \o names[i] \o <<BQ, ":", "\n">>]
                        \o <<<<".", ".", " ", "_", "_", ":", " ">> \o uri \o <<"\n">>>>
                        \o rest.lines,
              skip_uris |-> rest.skip_uris]

\* The first loop of render_external_targets, over the anonymous targets.
RECURSIVE render_anonymous(_, _, _)
render_anonymous(anonymous, named, skip_uris) ==
    IF anonymous = <<>> THEN [lines |-> <<>>, skip_uris |-> skip_uris]
    ELSE LET uri == Head(anonymous)
             hoist == uri \in DOMAIN named /\ uri \notin skip_uris
             names == IF hoist THEN sorted(named[uri]) ELSE <<>>
             rest == render_anonymous(Tail(anonymous), named,
                        IF hoist THEN skip_uris \cup {uri} ELSE skip_uris)
         IN  [lines |-> [i \in 1..Len(names) |->
                            <<".", ".", " ", "_", BQ>> \o names[i] \o <<BQ, ":", "\n">>]
                        \o <<<<".", ".", " ", "_", "_", ":", " ">> \o uri \o <<"\n">>>>
                        \o rest.lines,
              skip_uris |-> rest.skip_uris]

\* The lines of the second loop for one URI: a direct definition and the
\* indirect ones.
render_named(uri, names) ==
    LET targets == sorted(names)
    IN  <<<<".", ".", " ", "_", BQ>> \o targets[1] \o <<BQ, ":", " ">> \o uri \o <<"\n">>>>
        \o [i \in 1..(Len(targets) - 1) |->
               <<".", ".", " ", "_", BQ>> \o targets[i + 1] \o <<BQ, ":", " ", "_", BQ>>
               \o targets[1] \o <<BQ, "\n">>]

render_external_targets(s) ==
    LET et == s.external_targets
        first == render_anonymous(et.anonymous, et.named, {})
        uris == SortedSet(DOMAIN et.named)
        keep == {i \in 1..Len(uris) : uris[i] \notin first.skip_uris}
        \* targets[0] raises IndexError for a URI without names
        bad == {i \in keep : et.named[uris[i]] = <<>>}
        stop == IF bad = {} THEN Len(uris) + 1
                ELSE CHOOSE i \in bad : \A j \in bad : i <= j
        s1 == [s EXCEPT !.body =
                 Append(@, <<"\n", "\n">>) \o first.lines
                 \o Join([i \in 1..(stop - 1) |->
                            IF i \in keep
                            THEN render_named(uris[i], et.named[uris[i]])
                            ELSE <<>>])]
    IN  IF et.anonymous = <<>> /\ DOMAIN et.named = {} THEN s
        ELSE IF bad # {} THEN Raise(s1, "IndexError")
        ELSE s1

depart_document(s) ==
    LET s1 == render_external_targets(s)
    IN  IF s1.exc # "" THEN s1
        ELSE IF s1.custom_roles # <<>>
        THEN [s1 EXCEPT !.roles = Append(@, <<"\n">>)]
        ELSE s1

\* The walk ends with the document's departure.
DepartDocument ==
    /\ CanLeave("document")
    /\ IF depart_document(self).exc # ""
       THEN Abort("depart", Top, depart_document(self))
       ELSE /\ self' = depart_document(self)
            /\ path' = <<>>
            /\ status' = "done"
            /\ last' = Record("depart", Top)
            /\ UNCHANGED <<visited, options, input>>

(***************************************************************************)
(* Inputs and initial states                                               *)
(***************************************************************************)

\* document.settings as docutils sets them by default.
DefaultSettings ==
    [ pep_base_url |-> <<"h", "t", "t", "p", "s", ":", "/", "/", "p", "e", "p", "s", ".", "p", "y", "t", "h", "o", "n", ".", "o", "r", "g", "/">>,
      rfc_base_url |-> <<"h", "t", "t", "p", "s", ":", "/", "/", "t", "o", "o", "l", "s", ".", "i", "e", "t", "f", ".", "o", "r", "g", "/", "h", "t", "m", "l", "/">> ]

\* A family of documents: how many children a node of each kind may have,
\* how deep the tree may be, how many nodes it may hold, and what the leaves
\* are drawn from.  `first` is the text of an earlier serialization
\* when the document was parsed from one.
NoInput ==
    [ kids |-> [k \in {"document"} |-> 0],
      least |-> [k \in {"document"} |-> 0], depth |-> 1, nodes |-> 0,
      kinds |-> BlockKinds,
      cols |-> 0, cells |-> 0,
      paragraphs |-> {}, literals |-> {}, enums |-> {}, targets |-> {},
      colwidths |-> {}, references |-> <<>>, settings |-> DefaultSettings,
      first |-> None ]

DocumentFrame ==
    [ kind |-> "document", n |-> 0, d0 |-> 1, todo |-> <<>>, a |-> NoAttr,
      text |-> <<>>, seen |-> <<>> ]

\* The state in which walkabout starts on `inp` with wrap_length configured.
Start(wrap_length, inp) ==
    /\ options = OptionsInit(wrap_length)
    /\ self = TranslatorInit
    /\ path = <<DocumentFrame>>
    /\ status = "walking"
    /\ input = inp
    /\ visited = 0
    /\ last = [op |-> "init", kind |-> "document", node |-> DocumentFrame,
               pre |-> TranslatorInit]

\* All texts over `alphabet` of length 1..n.
RECURSIVE TextsUpTo(_, _)
TextsUpTo(alphabet, n) ==
    IF n = 0 THEN {}
    ELSE LET shorter == TextsUpTo(alphabet, n - 1)
         IN  {<<c>> : c \in alphabet}
             \cup shorter
             \cup {Append(t, c) : t \in shorter, c \in alphabet}

\* A paragraph holding one Text node.
Plain(texts) == {<<Text(t)>> : t \in texts}

(***************************************************************************)
(* SpecWrap: one paragraph, at top level or in a block quote, committed    *)
(* through render_buffer and wrap.                                         *)
(***************************************************************************)

\* The narrowest wrap_length configured, and the longest exhaustive text.
NarrowWrap == 3
MaxNarrowText == 6

\* How far the long texts reach around the default wrap_length.
WideMargin == 2

\* A text of n characters, words of gap - 1 letters separated by one space.
Words(n, gap) == [i \in 1..n |-> IF i % gap = 0 THEN " " ELSE "a"]

\* Texts around the default wrap_length: words or one long word, as they are
\* or starting like an enumerator ("a."), holding a star, ending in a space.
WideTexts ==
    LET base == {Words(n, gap) :
                    n \in (DefaultWrapLength - WideMargin)
                          ..(DefaultWrapLength + WideMargin),
                    gap \in {7, 1000}}
    IN  base
        \cup {[t EXCEPT ![2] = "."] : t \in base}
        \cup {[t EXCEPT ![3] = "*"] : t \in base}
        \cup {[t EXCEPT ![Len(t)] = " "] : t \in base}

WrapInput(texts) ==
    [NoInput EXCEPT !.kids = [document |-> 1, block_quote |-> 1],
                    !.depth = 3, !.nodes = 3,
                    !.paragraphs = Plain(texts)]

InitWrap ==
    \/ \E w \in {NarrowWrap, NarrowWrap + 1} :
         Start(w, WrapInput(TextsUpTo({"a", " "}, MaxNarrowText)))
    \/ Start(DefaultWrapLength, WrapInput(WideTexts))

NextWrap ==
    \/ VisitBlockQuote
    \/ DepartBlockQuote
    \/ VisitParagraph
    \/ VisitText
    \/ DepartParagraph
    \/ DepartDocument

SpecWrap == InitWrap /\ [][NextWrap]_vars

\* The lines of a committed fragment (its text up to the final newline).
LinesOf(fragment) == SplitOn(Front(fragment), "\n")

\* t occurs in line as a run of consecutive characters.
OccursIn(t, line) ==
    \E i \in 0..(Len(line) - Len(t)) : SubSeq(line, i + 1, i + Len(t)) = t

\* The whitespace-delimited words of a text.
WordsOf(text) ==
    LET chunks == SplitChunks(MungeWhitespace(text))
    IN  {chunks[i] : i \in {j \in 1..Len(chunks) : ~IsBlank(chunks[j])}}

\* depart_paragraph has just committed a paragraph into body.
JustCommitted ==
    /\ last.op = "depart" /\ last.kind = "paragraph"
    /\ status = "walking"
    /\ ~in_table(last.pre)

\* The text that commit wrapped, and the fragment it appended.
CommittedText == Join(last.pre.buffer)
CommittedFragment == Last(self.body)

\* C2: wrap() never splits a whitespace-delimited word: every word of the
\* committed text stands whole on one output line, a word longer than the
\* width overflowing on a line of its own.
C2_WordsNeverSplit ==
    JustCommitted =>
        \A word \in WordsOf(CommittedText) :
            \E i \in 1..Len(LinesOf(CommittedFragment)) :
                OccursIn(word, LinesOf(CommittedFragment)[i])

\* A paragraph committed at the top level under the default wrap_length.
TopLevelDefault ==
    /\ JustCommitted
    /\ options.wrap_length = DefaultWrapLength
    /\ Len(last.pre.indentation_levels) = 1

C3_PastBoundary ==
    /\ TopLevelDefault
    /\ Len(CommittedText) = DefaultWrapLength + 1
    /\ Len(LinesOf(CommittedFragment)) = 2

(***************************************************************************)
(* SpecEnum: one top-level enumerated list of one-paragraph items.         *)
(***************************************************************************)

\* The longest enumerated list.
MaxEnumItems == 28

EnumTypes ==
    { <<"a", "r", "a", "b", "i", "c">>,
      <<"l", "o", "w", "e", "r", "a", "l", "p", "h", "a">>,
      <<"u", "p", "p", "e", "r", "a", "l", "p", "h", "a">>,
      <<"l", "o", "w", "e", "r", "r", "o", "m", "a", "n">>,
      <<"u", "p", "p", "e", "r", "r", "o", "m", "a", "n">> }

\* The enumerator formats of reStructuredText: "1.", "(1)" and "1)".
EnumFormats ==
    { [prefix |-> <<>>, suffix |-> <<".">>],
      [prefix |-> <<"(">>, suffix |-> <<")">>],
      [prefix |-> <<>>, suffix |-> <<")">>] }

EnumInput ==
    [NoInput EXCEPT
        !.kids = [document |-> 1, enumerated_list |-> MaxEnumItems,
                  list_item |-> 1],
        !.least = [list_item |-> 1],
        !.depth = 4,
        !.nodes = 10 * MaxEnumItems,
        !.paragraphs = Plain({<<"x">>}),
        !.enums = {[enumtype |-> t, prefix |-> f.prefix, suffix |-> f.suffix] :
                      t \in EnumTypes, f \in EnumFormats}]

InitEnum == Start(DefaultWrapLength, EnumInput)

NextEnum ==
    \/ VisitEnumeratedList
    \/ VisitListItem
    \/ VisitParagraph
    \/ VisitText
    \/ DepartParagraph
    \/ DepartListItem
    \/ DepartEnumeratedList
    \/ DepartDocument

SpecEnum == InitEnum /\ [][NextEnum]_vars

\* visit_list_item has just built the marker of an item of an enumeration.
JustMarked ==
    /\ last.op = "visit" /\ last.kind = "list_item"
    /\ status = "walking"
    /\ Len(path) >= 2
    /\ path[Len(path) - 1].kind = "enumerated_list"

\* The enumerated_list node, the 1-based position of the item in it, and the
\* marker: the first-line override without the indentation before it and the
\* space after it.
EnumList == path[Len(path) - 1]
ItemNumber == EnumList.n
Marker ==
    LET first_line == Last(self.indent_first_line)[1]
    IN  SubSeq(first_line, Len(indentation(last.pre)) + 1, Len(first_line) - 1)

\* The marker without the list's prefix and suffix.
CounterText ==
    SubSeq(Marker, Len(EnumList.a.prefix) + 1,
           Len(Marker) - Len(EnumList.a.suffix))

\* The alphabetic numeral of k >= 1: a, b, ..., z, aa, ab, ...
RECURSIVE AlphaNumeral(_)
AlphaNumeral(k) ==
    IF k <= 26 THEN <<Chr(96 + k)>>
    ELSE AlphaNumeral((k - 1) \div 26) \o <<Chr(97 + ((k - 1) % 26))>>

\* The k-th numeral of a numbering scheme, in upper case.
Numeral(enumtype, k) ==
    IF EndsWith(enumtype, <<"a", "l", "p", "h", "a">>)
    THEN Upper(AlphaNumeral(k))
    ELSE IF EndsWith(enumtype, <<"r", "o", "m", "a", "n">>)
    THEN Upper(toRoman(k))
    ELSE Str(k)

\* C4: the markers of successive items are strictly increasing in the
\* list's numbering scheme: whatever the length of the list, the k-th item
\* carries, letter case aside, the k-th numeral of the scheme (arabic
\* 1, 2, 3, ...; alphabetic a, ..., z, aa, ...; roman i, ii, iii, ...).
C4_MarkersFollowScheme ==
    JustMarked =>
        Upper(CounterText) = Numeral(EnumList.a.enumtype, ItemNumber)

\* C5: a marker is the list's prefix, the counter text and the list's
\* suffix, and the letters of the counter text are upper case exactly when
\* the enum type is an upper one (upperalpha, upperroman).
C5_MarkerCaseAndDecoration ==
    JustMarked =>
        /\ StartsWith(Marker, EnumList.a.prefix)
        /\ EndsWith(Marker, EnumList.a.suffix)
        /\ \A i \in 1..Len(CounterText) :
              IsAlpha(CounterText[i]) =>
                 ( IsUpperChar(CounterText[i])
                     <=> StartsWith(EnumList.a.enumtype,
                                    <<"u", "p", "p", "e", "r">>) )

(***************************************************************************)
(* SpecBullet: a top-level bullet list of one-paragraph items, alone in    *)
(* the document or followed by a paragraph.                                *)
(***************************************************************************)

\* The longest bullet list, and the narrow wrap_length next to the default.
MaxBulletItems == 3
BulletWrap == 5

\* Item texts: one that fills a narrow line exactly, one that visit_Text
\* escapes and one longer than a narrow line.
BulletTexts ==
    { <<"a", " ", "b">>, <<"*">>, <<"a", "a", "a", "a", "a", "a">> }

BulletInput ==
    [NoInput EXCEPT
        !.kids = [document |-> 2, bullet_list |-> MaxBulletItems,
                  list_item |-> 1],
        !.least = [list_item |-> 1],
        !.depth = 4,
        !.nodes = 10 * MaxBulletItems,
        !.paragraphs = Plain(BulletTexts)]

InitBullet ==
    \E w \in {BulletWrap, DefaultWrapLength} : Start(w, BulletInput)

NextBullet ==
    \/ VisitBulletList
    \/ VisitListItem
    \/ VisitParagraph
    \/ VisitText
    \/ DepartParagraph
    \/ DepartListItem
    \/ DepartBulletList
    \/ DepartDocument

SpecBullet == InitBullet /\ [][NextBullet]_vars

\* The text a paragraph of this node text commits: what visit_paragraph and
\* visit_Text write to the buffer.
CommittedOf(text) ==
    Join(visit_Text(visit_paragraph(TranslatorInit, text), text).buffer)

\* A list item holding one paragraph short enough for one line.
ShortItem(item) ==
    /\ item.kind = "list_item"
    /\ Len(item.seen) = 1
    /\ item.seen[1].kind = "paragraph"
    /\ Len(CommittedOf(item.seen[1].text)) + 2 <= options.wrap_length

\* A bullet list of 3 short one-paragraph items.
ThreeShortItems(list) ==
    /\ list.kind = "bullet_list"
    /\ Len(list.seen) = 3
    /\ \A i \in 1..3 : ShortItem(list.seen[i])

\* The walk is over and the document was such a list, alone or followed by
\* one paragraph.
RenderedThreeItems ==
    /\ status = "done"
    /\ last.node.seen # <<>>
    /\ ThreeShortItems(last.node.seen[1])
    /\ Len(last.node.seen) = 2 => last.node.seen[2].kind = "paragraph"

TheList == last.node.seen[1]

\* One line per item: "* " and the committed text.
ItemLine(item) ==
    <<"*", " ">> \o CommittedOf(item.seen[1].text) \o <<"\n">>
ThreeLines ==
    ItemLine(TheList.seen[1]) \o ItemLine(TheList.seen[2])
        \o ItemLine(TheList.seen[3])

\* C6 as the specification states it: the list renders as three lines, each
\* beginning with "* ", with no blank line between them, followed by a single
\* blank line after the list.
C6_ThreeLinesThenBlankLine ==
    RenderedThreeItems =>
        /\ Len(astext(self)) > Len(ThreeLines)
        /\ SubSeq(astext(self), 1, Len(ThreeLines) + 1)
              = ThreeLines \o <<"\n">>

\* C6: the list renders as exactly three lines, each "* " and the item's
\* text, with no blank line between them.  The blank line after the list is
\* the spacer: a document that ends with the list ends with its third
\* line, and a paragraph that follows the list is separated from it by
\* exactly one blank line.
C6_ThreeLinesThenSpacer ==
    RenderedThreeItems =>
        /\ Len(LinesOf(ThreeLines)) = 3
        /\ \A i \in 1..3 : StartsWith(LinesOf(ThreeLines)[i], <<"*", " ">>)
        /\ Len(last.node.seen) = 1 => astext(self) = ThreeLines
        /\ Len(last.node.seen) = 2 =>
              /\ astext(self) = ThreeLines \o <<"\n">> \o Last(self.body)
              /\ Last(self.body)[1] # "\n"

\* Such a list has been rendered under the narrow wrap_length, an item
\* filling its line, and a paragraph after it.
C6_ListThenParagraph ==
    /\ RenderedThreeItems
    /\ options.wrap_length = BulletWrap
    /\ Len(last.node.seen) = 2
    /\ \E i \in 1..3 :
          Len(CommittedOf(TheList.seen[i].seen[1].text)) + 2 = BulletWrap

(***************************************************************************)
(* SpecTable: one table of up to MaxColumns columns, with or without a     *)
(* header row, cells empty or holding a paragraph or a literal block.      *)
(***************************************************************************)

\* The most columns and the most cells of a table.
MaxColumns == 2
MaxCells == 4

\* The wrap_length the tables are rendered under, and the declared width.
TableWrap == 20
WideColumn == 10

TableInput ==
    [NoInput EXCEPT
        !.kids = [document |-> 1, entry |-> 1],
        !.depth = 7,
        !.nodes = 10 * (MaxColumns + MaxCells),
        !.cols = MaxColumns,
        !.cells = MaxCells,
        !.colwidths = {None, Some(WideColumn)},
        !.paragraphs = Plain({ <<"a", "b", " ", "c", "d">>,
                               <<"a", "b", "c", "d", "e", "f", "g", "h", "i",
                                 "j">> }),
        !.literals = {[classes |-> <<>>,
                       text |-> <<"a", "a", "a", "a", "a", "a", "a">>]}]

InitTable == Start(TableWrap, TableInput)

NextTable ==
    \/ VisitTable
    \/ VisitTgroup
    \/ VisitColspec
    \/ VisitThead
    \/ DepartThead
    \/ VisitTbody
    \/ VisitRow
    \/ VisitEntry
    \/ VisitParagraph
    \/ VisitText
    \/ DepartParagraph
    \/ VisitLiteralBlock
    \/ DepartEntry
    \/ DepartRow
    \/ DepartTbody
    \/ DepartTgroup
    \/ DepartTable
    \/ DepartDocument

SpecTable == InitTable /\ [][NextTable]_vars

\* depart_table has just rendered a table.
JustRenderedTable ==
    /\ last.op = "depart" /\ last.kind = "table"
    /\ status = "walking"

\* The lines render_table appended, after the spacer if it appended one.
TableLines ==
    SubSeq(self.body,
           Len(last.pre.body) + (IF last.pre.body # <<>> THEN 2 ELSE 1),
           Len(self.body))

\* The positions of a character in a line.
Positions(line, chars) == {i \in 1..Len(line) : line[i] \in chars}

\* C7: every content line of a rendered table has as many "|"-delimited
\* cells as there are column specifications, every cell is padded to its
\* column's computed width (the bars of a content line stand under the
\* corners of the border), and so all content lines and border lines have
\* the same length.
C7_TableIsRectangular ==
    JustRenderedTable =>
        \A i \in 1..Len(TableLines) :
            /\ Len(TableLines[i]) = Len(TableLines[1])
            /\ TableLines[i][1] = "|" =>
                  /\ Cardinality(Positions(TableLines[i], {"|"}))
                        = Len(last.pre.table_buffer[1].column_spec) + 1
                  /\ Positions(TableLines[i], {"|"})
                        = Positions(TableLines[1], {"+"})

\* A cell holding one paragraph that fits the column's wrap width.
ShortCell(entry, wrapping) ==
    /\ entry.kind = "entry"
    /\ entry.a.morecols = None
    /\ Len(entry.seen) = 1
    /\ entry.seen[1].kind = "paragraph"
    /\ Len(CommittedOf(entry.seen[1].text)) <= wrapping

\* The tgroup of the rendered table: two columns declared WideColumn wide,
\* no thead, a tbody of one row of short text.
TheGroup == last.node.seen[1]
TheRow == TheGroup.seen[3].seen[1]
TwoColumnsOneRow ==
    /\ JustRenderedTable
    /\ Len(TheGroup.seen) = 3
    /\ \A c \in 1..2 : /\ TheGroup.seen[c].kind = "colspec"
                       /\ TheGroup.seen[c].a.colwidth = Some(WideColumn)
    /\ TheGroup.seen[3].kind = "tbody"
    /\ Len(TheGroup.seen[3].seen) = 1
    /\ Len(TheRow.seen) = 2
    /\ \A c \in 1..2 : ShortCell(TheRow.seen[c], WideColumn - 2)

\* A border of two columns WideColumn wide, and the content row: each cell
\* its text padded with spaces to WideColumn characters between the bars.
Border(dash) ==
    <<"+">> \o Repeat(dash, WideColumn) \o <<"+">>
    \o Repeat(dash, WideColumn) \o <<"+", "\n">>
PaddedCell(entry) ==
    <<" ">> \o CommittedOf(entry.seen[1].text)
    \o Repeat(" ", WideColumn - 1 - Len(CommittedOf(entry.seen[1].text)))
ContentRow ==
    <<"|">> \o PaddedCell(TheRow.seen[1]) \o <<"|">>
    \o PaddedCell(TheRow.seen[2]) \o <<"|", "\n">>

\* C8 as the specification states it: such a table renders a top border,
\* one content row whose cells are each padded to width 10, and a
\* double-rule ("=") bottom border.
C8_DoubleRuleBottom ==
    TwoColumnsOneRow =>
        TableLines = <<Border("-"), ContentRow, Border("=")>>

\* C8: such a table renders a top border, one content row whose cells are
\* each padded to width 10, and a single-rule ("-") bottom border: the
\* double rule closes the last row of a header section, and there is none.
C8_SingleRuleBottom ==
    TwoColumnsOneRow =>
        TableLines = <<Border("-"), ContentRow, Border("-")>>

(***************************************************************************)
(* SpecTargets: a document of external targets and of paragraphs holding   *)
(* one reference each.                                                     *)
(***************************************************************************)

\* The most body elements of the document.
MaxBlocks == 3

ExampleUri == <<"h", "t", "t", "p", ":", "/", "/", "e", "x", "a", "m", "p", "l", "e", ".", "c", "o", "m">>
OtherUri == <<"h", "t", "t", "p", ":", "/", "/", "a", ".", "o", "r", "g">>
Foo == <<"f", "o", "o">>
Bar == <<"b", "a", "r">>

\* `.. _name: uri` and `__ uri`.
NamedTarget(name, uri) == [NoAttr EXCEPT !.refuri = uri, !.names = <<name>>]
AnonymousTarget(uri) == [NoAttr EXCEPT !.refuri = uri, !.anonymous = TRUE]
\* A target whose name docutils moved to dupnames: one of two targets that
\* give one name to different URIs.
NamelessTarget(uri) == [NoAttr EXCEPT !.refuri = uri]

\* `name`_ and `name`__ resolved to uri, a standalone uri, and an internal
\* reference.
NamedReference(name, uri) ==
    Inline("reference", [NoAttr EXCEPT !.refuri = uri, !.name = name],
           <<Text(name)>>)
AnonymousReference(name, uri) ==
    Inline("reference",
           [NoAttr EXCEPT !.refuri = uri, !.name = name, !.anonymous = TRUE],
           <<Text(name)>>)
StandaloneReference(uri) ==
    Inline("reference", [NoAttr EXCEPT !.refuri = uri], <<Text(uri)>>)
InternalReference(name) ==
    Inline("reference", [NoAttr EXCEPT !.refid = name, !.name = name],
           <<Text(name)>>)

PepUri == DefaultSettings.pep_base_url \o <<"p", "e", "p", "-", "0", "0", "0", "8">>
RfcUri == DefaultSettings.rfc_base_url \o <<"r", "f", "c", "2", "8", "2", "2", ".", "h", "t", "m", "l">>

TargetsInput ==
    [NoInput EXCEPT
        !.kids = [document |-> MaxBlocks],
        !.depth = 2,
        !.nodes = 10 * MaxBlocks,
        !.targets = {NamedTarget(n, u) : n \in {Foo, Bar},
                                         u \in {ExampleUri, OtherUri}}
                    \cup {AnonymousTarget(u) : u \in {ExampleUri, OtherUri}}
                    \cup {NamelessTarget(OtherUri)},
        !.paragraphs = { <<NamedReference(Foo, ExampleUri),
                           Inline("target", NamedTarget(Foo, ExampleUri),
                                  <<>>)>>,
                         <<NamedReference(Foo, ExampleUri)>>,
                         <<AnonymousReference(Foo, ExampleUri)>>,
                         <<StandaloneReference(ExampleUri)>>,
                         <<InternalReference(Bar)>>,
                         <<NamedReference(<<"P", "E", "P", " ", "8">>, PepUri)>>,
                         <<NamedReference(<<"R", "F", "C", " ", "2", "8", "2", "2">>, RfcUri)>> }]

InitTargets == Start(DefaultWrapLength, TargetsInput)

NextTargets ==
    \/ VisitTarget
    \/ VisitInlineTarget
    \/ VisitParagraph
    \/ VisitReference
    \/ VisitText
    \/ DepartReference
    \/ DepartParagraph
    \/ DepartDocument

SpecTargets == InitTargets /\ [][NextTargets]_vars


\* The walk is over.
Rendered == status = "done" /\ last.op = "depart" /\ last.kind = "document"

\* The body elements of the document that are external targets, in the order
\* of the walk.
IsExternalTarget(node) ==
    node.kind = "target" /\ node.a.refid = <<>> /\ node.a.refuri # <<>>
ExternalTargets == SelectSeq(last.node.seen, IsExternalTarget)

\* The lines render_external_targets emitted, after the blank lines it
\* starts with.
LinkBlock == SubSeq(self.body, Len(last.pre.body) + 2, Len(self.body))

\* The block a fresh translator emits for targets visited in this order.
RECURSIVE VisitAll(_, _)
VisitAll(s, targets) ==
    IF targets = <<>> THEN s
    ELSE VisitAll(visit_target(s, Head(targets).a, <<>>), Tail(targets))
BlockOf(targets) ==
    Tail(render_external_targets(VisitAll(TranslatorInit, targets)).body)

\* The orders in which n nodes can be visited.
Orders(n) ==
    {p \in [1..n -> 1..n] : \A i, j \in 1..n : p[i] = p[j] => i = j}

\* N >= 1 external targets that share one URI: each named one carries one
\* name of its own, an anonymous one none.
TargetsShareUri ==
    /\ Rendered
    /\ ExternalTargets # <<>>
    /\ \A i, j \in 1..Len(ExternalTargets) :
          /\ ExternalTargets[i].a.refuri = ExternalTargets[1].a.refuri
          /\ Len(ExternalTargets[i].a.names)
                = (IF ExternalTargets[i].a.anonymous THEN 0 ELSE 1)
          /\ ( /\ i # j
               /\ ~ExternalTargets[i].a.anonymous
               /\ ~ExternalTargets[j].a.anonymous )
                => ExternalTargets[i].a.names # ExternalTargets[j].a.names
SharedUri == ExternalTargets[1].a.refuri
TargetNames ==
    {ExternalTargets[i].a.names[1] :
        i \in {j \in 1..Len(ExternalTargets) :
                  ~ExternalTargets[j].a.anonymous}}

\* A direct definition of the shared URI: `.. _name: uri` or `.. __: uri`.
DirectLine(line) ==
    \/ line = <<".", ".", " ", "_", "_", ":", " ">> \o SharedUri \o <<"\n">>
    \/ \E n \in TargetNames :
          line = <<".", ".", " ", "_", BQ>> \o n \o <<BQ, ":", " ">> \o SharedUri \o <<"\n">>

\* An alias of the definition in line d: an indirect target that refers to
\* the name line d defines, or an empty target chained to it from above.
AliasLine(i, d) ==
    \E a \in TargetNames :
        \/ /\ i < d
           /\ LinkBlock[i] = <<".", ".", " ", "_", BQ>> \o a \o <<BQ, ":", "\n">>
        \/ \E n \in TargetNames :
              /\ LinkBlock[d] = <<".", ".", " ", "_", BQ>> \o n \o <<BQ, ":", " ">> \o SharedUri \o <<"\n">>
              /\ LinkBlock[i] = <<".", ".", " ", "_", BQ>> \o a \o <<BQ, ":", " ">> \o <<BQ>> \o n
                                \o <<BQ, "_", "\n">>

\* C9: N external targets that share a URI give a link-definition block of
\* exactly one direct definition of the URI and N - 1 indirect aliases that
\* point at it, and the block is the same for every order in which the
\* targets are visited.
C9_OneDefinitionAndAliases ==
    TargetsShareUri =>
        /\ Len(LinkBlock) = Len(ExternalTargets)
        /\ \E d \in 1..Len(LinkBlock) :
              /\ DirectLine(LinkBlock[d])
              /\ \A i \in 1..Len(LinkBlock) : i # d => AliasLine(i, d)
        /\ \A p \in Orders(Len(ExternalTargets)) :
              BlockOf([i \in 1..Len(ExternalTargets) |-> ExternalTargets[p[i]]])
                 = LinkBlock

\* visit_reference has just returned from an external reference that has a
\* name and a generic URI.
JustVisitedReference ==
    /\ last.op = "visit" /\ last.kind = "reference"
    /\ status = "walking"
    /\ last.node.a.refuri # <<>>
    /\ last.node.a.name # <<>>
    /\ ~reference_skips(last.node.a)

Registered(a) ==
    IF a.anonymous
    THEN Contains(self.external_targets.anonymous, a.refuri)
    ELSE /\ a.refuri \in DOMAIN self.external_targets.named
         /\ Contains(self.external_targets.named[a.refuri], a.name)

\* The document was two paragraphs of one reference each, the first named
\* "foo", the second anonymous, both to the example URI.
TwoReferences ==
    /\ Rendered
    /\ Len(last.node.seen) = 2
    /\ \A i \in 1..2 :
          /\ last.node.seen[i].kind = "paragraph"
          /\ Len(last.node.seen[i].seen) = 1
          /\ last.node.seen[i].seen[1].kind = "reference"
          /\ last.node.seen[i].seen[1].a.refuri = ExampleUri
    /\ ~last.node.seen[1].seen[1].a.anonymous
    /\ last.node.seen[1].seen[1].a.name = Foo
    /\ last.node.seen[2].seen[1].a.anonymous

\* C10: visiting an external reference with a generic URI registers the URI
\* (in the anonymous list if the reference is anonymous, under its name
\* otherwise) and writes only the reference marker to the buffer, never the
\* URI; so a reference named "foo" and an anonymous one, both to
\* http://example.com, end the document with one hoisted named definition
\* line and one anonymous definition line.
C10_ReferenceRegistersUri ==
    /\ JustVisitedReference =>
          /\ Registered(last.node.a)
          /\ self.buffer = Append(last.pre.buffer, <<BQ>>)
    /\ TwoReferences =>
          /\ Len(self.body) >= 2
          /\ SubSeq(self.body, Len(self.body) - 1, Len(self.body))
                = << <<".", ".", " ", "_", BQ>> \o Foo \o <<BQ, ":", "\n">>,
                     <<".", ".", " ", "_", "_", ":", " ">> \o ExampleUri \o <<"\n">> >>

(***************************************************************************)
(* Spec: walks over documents of every kind of node modelled, nested up to *)
(* MaxDepth levels and holding up to MaxNodes nodes.                       *)
(***************************************************************************)

MaxDepth == 5
MaxNodes == 6
MaxKids == 2

\* A paragraph of plain text, and one of emphasis, of a code role that
\* registers its role with an option, of a custom role and of an inline
\* target.
Paragraphs ==
    { <<Text(<<"a">>)>>,
      <<Inline("emphasis", NoAttr, <<Text(<<"b">>)>>),
        Inline("literal",
               [NoAttr EXCEPT !.classes = <<<<"c">>, <<"d">>, <<"e">>>>],
               <<Inline("inline", [NoAttr EXCEPT !.classes = <<<<"f">>>>],
                        <<Text(<<"g">>)>>)>>),
        Inline("inline", [NoAttr EXCEPT !.classes = <<<<"h">>>>],
               <<Text(<<"i">>)>>),
        Inline("target", NoAttr, <<Text(<<"j">>)>>)>> }

\* Documents of lists, quotes, definitions and literal blocks in each other.
NestedInput ==
    [NoInput EXCEPT
        !.kinds = BlockKinds \ {"table"},
        !.kids = [k \in {"document", "block_quote", "list_item", "definition",
                         "bullet_list", "enumerated_list", "definition_list",
                         "definition_list_item"} |-> MaxKids],
        !.depth = MaxDepth,
        !.nodes = MaxNodes,
        !.paragraphs = {<<Text(<<"a">>)>>},
        !.literals = {[classes |-> <<>>, text |-> <<"x", "\n", "y">>]},
        !.enums = {[enumtype |-> <<"a", "r", "a", "b", "i", "c">>,
                    prefix |-> <<>>, suffix |-> <<".">>]},
        !.targets = {NamedTarget(Foo, OtherUri)}]

\* Documents of one table of one column whose cells hold lists and quotes
\* of paragraphs with inline markup.
TabularInput ==
    [NoInput EXCEPT
        !.kinds = {"table", "tgroup", "colspec", "thead", "tbody", "row",
                   "entry", "paragraph", "bullet_list", "list_item",
                   "block_quote"},
        !.kids = [k \in {"document", "entry", "list_item", "block_quote",
                         "bullet_list"} |-> 1],
        !.depth = MaxDepth + 5,
        !.nodes = MaxNodes + 7,
        !.cols = 1,
        !.cells = MaxKids,
        !.colwidths = {None},
        !.paragraphs = Paragraphs]

Init ==
    \E inp \in {NestedInput, TabularInput} : Start(DefaultWrapLength, inp)

Next ==
    \/ VisitParagraph
    \/ VisitText
    \/ DepartParagraph
    \/ VisitBlockQuote
    \/ DepartBlockQuote
    \/ VisitLiteralBlock
    \/ VisitBulletList
    \/ DepartBulletList
    \/ VisitEnumeratedList
    \/ DepartEnumeratedList
    \/ VisitListItem
    \/ DepartListItem
    \/ VisitDefinitionList
    \/ DepartDefinitionList
    \/ VisitDefinitionListItem
    \/ DepartDefinitionListItem
    \/ VisitTerm
    \/ DepartTerm
    \/ VisitDefinition
    \/ DepartDefinition
    \/ VisitSimpleInline
    \/ DepartSimpleInline
    \/ VisitLiteral
    \/ DepartLiteral
    \/ VisitInline
    \/ DepartInline
    \/ VisitTarget
    \/ VisitInlineTarget
    \/ DepartTarget
    \/ VisitTable
    \/ VisitTgroup
    \/ VisitColspec
    \/ VisitThead
    \/ DepartThead
    \/ VisitTbody
    \/ VisitRow
    \/ VisitEntry
    \/ DepartEntry
    \/ DepartRow
    \/ DepartTbody
    \/ DepartTgroup
    \/ DepartTable
    \/ DepartDocument

Spec == Init /\ [][Next]_vars

\* C1: over the whole walk of a well-formed document the calls of indent()
\* and of dedent() balance, the summed indentation is never negative, the
\* two stacks _indentation_levels and _indent_first_line have the same depth
\* of at least 1, and after a node is left or skipped the stacks are as deep
\* as they were just before the node was entered.
C1_IndentationBalance ==
    /\ Len(self.indentation_levels) = Len(self.indent_first_line)
    /\ Len(self.indentation_levels) >= 1
    /\ indentation_length(self) >= 0
    /\ self.n_indent - self.n_dedent = Len(self.indentation_levels) - 1
    /\ status = "done" => self.n_indent = self.n_dedent
    /\ (last.op \in {"depart", "skip"} /\ status \in {"walking", "done"}) =>
          Len(self.indentation_levels) = last.node.d0

\* A walk that indented three times is over.
C1_BalancedAfterNesting ==
    /\ status = "done"
    /\ self.n_indent >= 3
    /\ self.n_dedent = self.n_indent

(***************************************************************************)
(* The flush of the external target registry (SpecTargets)                 *)
(***************************************************************************)

\* The registry as depart_document found it.
FlushedAnonymous == last.pre.external_targets.anonymous
FlushedNamed == last.pre.external_targets.named
FlushedNames(u) ==
    IF u \in DOMAIN FlushedNamed THEN Range(FlushedNamed[u]) ELSE {}

\* The lines of a link-definition block.
HoistedLineOf(n) == <<".", ".", " ", "_", BQ>> \o n \o <<BQ, ":", "\n">>
AnonymousLineOf(u) == <<".", ".", " ", "_", "_", ":", " ">> \o u \o <<"\n">>
DirectLineOf(n, u) ==
    <<".", ".", " ", "_", BQ>> \o n \o <<BQ, ":", " ">> \o u \o <<"\n">>
Defines(line, n) == StartsWith(line, <<".", ".", " ", "_", BQ>> \o n \o <<BQ, ":">>)

AnonymousAt == {i \in 1..Len(LinkBlock) :
                   \E u \in Range(FlushedAnonymous) : LinkBlock[i] = AnonymousLineOf(u)}
HoistedAt == {i \in 1..Len(LinkBlock) :
                 \E u \in DOMAIN FlushedNamed :
                    \E n \in FlushedNames(u) : LinkBlock[i] = HoistedLineOf(n)}
DirectAt(u) == {i \in 1..Len(LinkBlock) :
                   \E n \in FlushedNames(u) : LinkBlock[i] = DirectLineOf(n, u)}
FirstAnonymousOf(u) ==
    CHOOSE i \in 1..Len(LinkBlock) :
        /\ LinkBlock[i] = AnonymousLineOf(u)
        /\ \A j \in 1..(i - 1) : LinkBlock[j] # AnonymousLineOf(u)

\* C11: the registry is flushed once, after all other body content: the
\* anonymous targets come first, in registration order; the named definitions
\* of a URI that has anonymous targets are hoisted immediately before the
\* first anonymous line of that URI and nowhere else; the remaining named
\* URIs follow in ascending lexicographic order of the URI; every name is
\* defined once for the URI it is registered under; and an empty registry
\* emits nothing.
C11_RegistryFlush ==
    /\ status = "walking" =>
          \A i \in 1..Len(self.body) : ~StartsWith(self.body[i], <<".", ".", " ", "_">>)
    /\ Rendered =>
          /\ (FlushedAnonymous = <<>> /\ DOMAIN FlushedNamed = {}) =>
                self.body = last.pre.body
          /\ (FlushedAnonymous # <<>> \/ DOMAIN FlushedNamed # {}) =>
                /\ Len(self.body) > Len(last.pre.body)
                /\ SubSeq(self.body, 1, Len(last.pre.body)) = last.pre.body
                /\ self.body[Len(last.pre.body) + 1] = <<"\n", "\n">>
                \* anonymous lines: one per registration, in registration order
                /\ SelectSeq(LinkBlock, LAMBDA l : \E u \in Range(FlushedAnonymous) :
                                                       l = AnonymousLineOf(u))
                      = [i \in 1..Len(FlushedAnonymous) |->
                            AnonymousLineOf(FlushedAnonymous[i])]
                \* hoisting: right before the first anonymous line of the URI
                /\ \A u \in Range(FlushedAnonymous) :
                      /\ FirstAnonymousOf(u) > Cardinality(FlushedNames(u))
                      /\ { LinkBlock[i] :
                             i \in (FirstAnonymousOf(u) - Cardinality(FlushedNames(u)))
                                   ..(FirstAnonymousOf(u) - 1) }
                            = {HoistedLineOf(n) : n \in FlushedNames(u)}
                      /\ DirectAt(u) = {}
                /\ Cardinality(HoistedAt)
                      = Cardinality({<<u, n>> \in Range(FlushedAnonymous) \X {Foo, Bar} :
                                        n \in FlushedNames(u)})
                \* the remaining named URIs: after the anonymous part, ascending
                /\ \A u \in DOMAIN FlushedNamed \ Range(FlushedAnonymous) :
                      /\ Cardinality(DirectAt(u)) = 1
                      /\ \A i \in DirectAt(u) :
                            /\ \A j \in AnonymousAt \cup HoistedAt : j < i
                            /\ \A v \in DOMAIN FlushedNamed \ Range(FlushedAnonymous) :
                                  \A k \in DirectAt(v) :
                                     i < k <=> LexLess(u, v)
                \* every registered name is defined once for its URI
                /\ \A n \in {Foo, Bar} :
                      Cardinality({i \in 1..Len(LinkBlock) : Defines(LinkBlock[i], n)})
                         = Cardinality({u \in DOMAIN FlushedNamed : n \in FlushedNames(u)})

\* The walk is over for a document of two anonymous targets and a named one
\* of one URI, or of an anonymous and a named target of one URI and a named
\* target of another.
C11_HoistedAndSorted ==
    /\ Rendered
    /\ Len(FlushedAnonymous) >= 1
    /\ \E u \in Range(FlushedAnonymous) : FlushedNames(u) # {}
    /\ \/ Len(FlushedAnonymous) = 2 /\ FlushedAnonymous[1] = FlushedAnonymous[2]
       \/ \E v \in DOMAIN FlushedNamed \ Range(FlushedAnonymous) : FlushedNames(v) # {}

(***************************************************************************)
(* SpecInternal: a document of internal block targets and of paragraphs,   *)
(* whose reference nodes are fixed from the start, as visit_target         *)
(* searches the whole document for them.                                   *)
(***************************************************************************)

Baz == <<"b", "a", "z">>

\* `.. _name:` before a body element: docutils gives the target a refid.
InternalTarget(refid) == [NoAttr EXCEPT !.refid = refid, !.names = <<refid>>]

\* A reference that carries a refid and no name.
UnnamedReference(refid) ==
    Inline("reference", [NoAttr EXCEPT !.refid = refid], <<Text(refid)>>)

\* The documents whose reference nodes are `refs`, one to a paragraph.
InternalInput(refs) ==
    [NoInput EXCEPT
        !.kids = [document |-> MaxBlocks],
        !.depth = 2,
        !.nodes = 10 * MaxBlocks,
        !.targets = {InternalTarget(Bar), InternalTarget(Baz)},
        !.paragraphs = {<<Text(<<"a">>)>>}
                       \cup {<<refs[i]>> : i \in 1..Len(refs)},
        !.references = [i \in 1..Len(refs) |-> refs[i].a]]

InitInternal ==
    \E refs \in { <<>>,
                  <<InternalReference(Bar)>>,
                  <<UnnamedReference(Bar)>>,
                  <<UnnamedReference(Bar), InternalReference(Bar)>> } :
        Start(DefaultWrapLength, InternalInput(refs))

\* The reference nodes of the blocks walked so far, in document order.
RECURSIVE ReferencesIn(_)
ReferencesIn(blocks) ==
    IF blocks = <<>> THEN <<>>
    ELSE LET refs == SelectSeq(Head(blocks).seen,
                               LAMBDA n : n.kind = "reference")
         IN  [i \in 1..Len(refs) |-> refs[i].a] \o ReferencesIn(Tail(blocks))

\* The document ends when it holds the references it was searched for.
DepartInternalDocument ==
    /\ Walking
    /\ ReferencesIn(Top.seen) = input.references
    /\ DepartDocument

NextInternal ==
    \/ VisitTarget
    \/ VisitParagraph
    \/ VisitReference
    \/ VisitText
    \/ DepartReference
    \/ DepartParagraph
    \/ DepartInternalDocument

SpecInternal == InitInternal /\ [][NextInternal]_vars

\* visit_target has just run on a block target whose refid no reference of
\* the document carries, or whose first matching reference has no name.
JustSkippedUnresolvable ==
    /\ last.kind = "target"
    /\ last.op # "init"
    /\ last.node.text = <<>>
    /\ last.node.a.refid # <<>>
    /\ \/ \A i \in 1..Len(input.references) :
             input.references[i].refid # last.node.a.refid
       \/ \E i \in 1..Len(input.references) :
             /\ input.references[i].refid = last.node.a.refid
             /\ input.references[i].name = <<>>
             /\ \A j \in 1..(i - 1) :
                   input.references[j].refid # last.node.a.refid

\* C12: an internal block target that cannot be resolved is skipped: no
\* exception ends the walk, no piece of the translator's state changes
\* (body, buffer, spacer, indentation stacks, target registry), the target
\* is not entered, so depart_target does not run on it, and the walk goes on
\* under the target's parent.
C12_UnresolvableTargetIsSkipped ==
    JustSkippedUnresolvable =>
        /\ status = "walking"
        /\ last.op = "skip"
        /\ self = last.pre
        /\ self.body = last.pre.body /\ self.buffer = last.pre.buffer
        /\ self.spacer = last.pre.spacer
        /\ self.indentation_levels = last.pre.indentation_levels
        /\ self.indent_first_line = last.pre.indent_first_line
        /\ self.external_targets = last.pre.external_targets
        /\ Top.kind = "document"
        /\ Top.seen # <<>> /\ Top.seen[Len(Top.seen)] = last.node

\* An unresolvable target was skipped after a paragraph had been committed,
\* in a document that also holds a reference.
C12_SkippedAfterParagraph ==
    /\ JustSkippedUnresolvable
    /\ self.body # <<>>
    /\ input.references # <<>>

\* The walk went on after the skipped target and reached the document's end
\* with the target left out of the output.
C12_WalkedOn ==
    /\ Rendered
    /\ \E i \in 1..Len(last.node.seen) :
          /\ last.node.seen[i].kind = "target"
          /\ i < Len(last.node.seen)
    /\ \A i \in 1..Len(self.body) : ~StartsWith(self.body[i], <<".", ".">>)
    /\ self.body # <<>>

(***************************************************************************)
(* SpecRoles: a document of paragraphs, at top level or in a block quote,  *)
(* that hold custom roles and code roles.                                  *)
(***************************************************************************)

Role(classes, text) ==
    Inline("inline", [NoAttr EXCEPT !.classes = classes], <<Text(text)>>)
CodeRole(classes, kids) ==
    Inline("literal", [NoAttr EXCEPT !.classes = classes], kids)
Code == <<"c", "o", "d", "e">>

RolesInput ==
    [NoInput EXCEPT
        !.kids = [document |-> MaxBlocks, block_quote |-> 1],
        !.depth = 3,
        !.nodes = 10 * MaxBlocks,
        !.kinds = {"paragraph", "block_quote"},
        !.paragraphs =
            { <<Text(<<"a">>)>>,
              <<Role(<<<<"h">>>>, <<"i">>)>>,
              <<Role(<<<<"k">>>>, <<"i">>), Role(<<<<"h">>>>, <<"j">>)>>,
              <<Role(<<<<"h">>, <<"k">>>>, <<"i">>)>>,
              <<CodeRole(<<Code, <<"d">>, <<"e">>>>,
                         <<Role(<<<<"f">>>>, <<"g">>)>>)>>,
              <<CodeRole(<<Code, <<"d">>>>, <<Text(<<"g">>)>>)>>,
              <<CodeRole(<<>>, <<Text(<<"g">>)>>)>> }]

InitRoles == Start(DefaultWrapLength, RolesInput)

NextRoles ==
    \/ VisitParagraph
    \/ VisitText
    \/ VisitInline
    \/ DepartInline
    \/ VisitLiteral
    \/ DepartLiteral
    \/ DepartParagraph
    \/ VisitBlockQuote
    \/ DepartBlockQuote
    \/ DepartDocument

SpecRoles == InitRoles /\ [][NextRoles]_vars

\* The role names the node just visited carries, as the writer declares
\* them: the classes of an inline node that is not inside a code role, and
\* the second class, with "(code)", of a literal node of several classes.
RolesCarried ==
    IF last.op = "visit" /\ last.kind = "inline" /\ ~last.pre.ignore_inlines
    THEN last.node.a.classes
    ELSE IF last.op = "visit" /\ last.kind = "literal"
            /\ Len(last.node.a.classes) > 1
    THEN <<last.node.a.classes[2] \o <<"(", "c", "o", "d", "e", ")">>>>
    ELSE <<>>

\* The role declarations, without the blank line that ends them.
Declarations ==
    IF status = "done" /\ self.custom_roles # <<>> THEN Front(self.roles)
    ELSE self.roles

DeclarationOf(role) == <<".", ".", " ", "r", "o", "l", "e", ":", ":", " ">> \o role \o <<"\n">>

\* C13: a custom role is declared once, when a node that carries it is
\* first met, after the roles declared before, however many nodes carry it;
\* and the output is header, title, subtitle, role declarations, body and
\* footer in this order, so that the declarations precede all body text.
C13_RolesDeclaredOnceBeforeBody ==
    /\ \A i, j \in 1..Len(self.custom_roles) :
          self.custom_roles[i] = self.custom_roles[j] => i = j
    /\ Len(Declarations) = Len(self.custom_roles)
    /\ \A i \in 1..Len(Declarations) :
          StartsWith(Declarations[i], DeclarationOf(self.custom_roles[i]))
    /\ \A i, j \in 1..Len(Declarations) :
          StartsWith(Declarations[i], DeclarationOf(self.custom_roles[j])) => i = j
    /\ last.op # "init" =>
          self.custom_roles
             = last.pre.custom_roles
               \o SelectSeq(RolesCarried,
                            LAMBDA r : ~Contains(last.pre.custom_roles, r))
    /\ Rendered =>
          /\ astext(self)
                = Join(self.header) \o Join(self.title) \o Join(self.subtitle)
                  \o Join(self.roles) \o Join(self.body) \o Join(self.footer)
          /\ astext(self)
                = Join(Declarations)
                  \o (IF self.custom_roles = <<>> THEN <<>> ELSE <<"\n">>)
                  \o Join(self.body)
          /\ \A i \in 1..Len(self.body) :
                ~StartsWith(self.body[i], <<".", ".", " ", "r", "o", "l", "e">>)

\* The walk is over for a document in which a role was met again after
\* another role had been declared, and body text preceded its first use.
C13_RoleMetTwice ==
    /\ Rendered
    /\ Len(self.custom_roles) >= 2
    /\ Len(last.node.seen) = MaxBlocks
    /\ last.node.seen[1].kind = "paragraph"
    /\ last.node.seen[1].seen[1].kind = "Text"
    /\ \E i, j \in 2..MaxBlocks :
          /\ i < j
          /\ last.node.seen[i].kind = "paragraph"
          /\ last.node.seen[j].kind = "paragraph"
          /\ last.node.seen[i].seen[1].kind = "inline"
          /\ last.node.seen[i].seen[1].a.classes = <<<<"k">>>>
          /\ last.node.seen[j].seen[1].kind = "inline"
          /\ last.node.seen[j].seen[1].a.classes = <<<<"h">>, <<"k">>>>

(***************************************************************************)
(* SpecReparse: a one-paragraph document is serialized, the text is parsed *)
(* by docutils into a document again, and that one is serialized.  The     *)
(* texts are one line of letters, spaces and backslashes starting with a   *)
(* letter, which docutils reads as one paragraph whose text is the line    *)
(* with its backslash escapes removed (docutils.utils.escape2null and      *)
(* unescape).                                                              *)
(***************************************************************************)

\* The longest text of the paragraph.
MaxParsedText == 4

\* docutils' unescape(escape2null(text)): a backslash escapes the character
\* after it and is removed, together with an escaped whitespace character.
RECURSIVE Unescape(_)
Unescape(t) ==
    IF t = <<>> THEN <<>>
    ELSE IF Head(t) # "\\" THEN <<Head(t)>> \o Unescape(Tail(t))
    ELSE IF Len(t) = 1 THEN <<>>
    ELSE (IF IsWs(t[2]) THEN <<>> ELSE <<t[2]>>)
         \o Unescape(SubSeq(t, 3, Len(t)))

\* The paragraphs docutils parses from lines of running text: the runs of
\* lines between blank lines.
RECURSIVE ParagraphRuns(_, _)
ParagraphRuns(lines, run) ==
    IF lines = <<>> THEN (IF run = <<>> THEN <<>> ELSE <<run>>)
    ELSE IF Head(lines) = <<>>
    THEN (IF run = <<>> THEN <<>> ELSE <<run>>) \o ParagraphRuns(Tail(lines), <<>>)
    ELSE ParagraphRuns(Tail(lines), Append(run, Head(lines)))

ParseParagraphs(text) ==
    LET runs == ParagraphRuns(SplitOn(text, "\n"), <<>>)
    IN  [i \in 1..Len(runs) |-> Unescape(JoinWith(<<"\n">>, runs[i]))]

\* The texts a parsed paragraph can hold: they start with a letter and do
\* not end in whitespace.
ParsedTexts ==
    {t \in TextsUpTo({"a", " ", "\\"}, MaxParsedText) :
        t[1] = "a" /\ ~IsWs(t[Len(t)])}

ReparseInput ==
    [NoInput EXCEPT !.kids = [document |-> 1],
                    !.least = [document |-> 1],
                    !.depth = 2, !.nodes = 2,
                    !.kinds = {"paragraph"},
                    !.paragraphs = Plain(ParsedTexts)]

InitReparse == Start(DefaultWrapLength, ReparseInput)

\* The serialized text is parsed and the walk starts on the parsed document.
Reparse ==
    /\ status = "done"
    /\ input.first = None
    /\ Len(ParseParagraphs(astext(self))) = 1
    /\ input' = [input EXCEPT
                    !.first = Some(astext(self)),
                    !.paragraphs = Plain({ParseParagraphs(astext(self))[1]})]
    /\ self' = TranslatorInit
    /\ path' = <<DocumentFrame>>
    /\ status' = "walking"
    /\ visited' = 0
    /\ last' = [op |-> "init", kind |-> "document", node |-> DocumentFrame,
                pre |-> TranslatorInit]
    /\ UNCHANGED options

NextReparse ==
    \/ VisitParagraph
    \/ VisitText
    \/ DepartParagraph
    \/ DepartDocument
    \/ Reparse

SpecReparse == InitReparse /\ [][NextReparse]_vars

\* C14: the serialization of the document parsed from a serialized text is
\* that text again.
C14_SerializationIsFixedPoint ==
    (Rendered /\ input.first # None) => astext(self) = input.first[1]

(***************************************************************************)
(* The list-style stack (Spec)                                             *)
(***************************************************************************)

IsList(node) == node.kind \in {"bullet_list", "enumerated_list"}

\* The list nodes that are open, outermost first.
OpenLists == SelectSeq(path, IsList)

\* C15: the list-style stack holds one frame per open list node, in the
\* order the lists were entered.  Entering a list pushes one frame, an
\* enumeration frame with its counter at 0, and leaving it pops that frame;
\* visit_list_item adds exactly 1 to the counter of its own list when that
\* is an enumerated list and changes no other frame; no other handler touches
\* the stack.  So the counter of an open enumerated list is the number of its
\* items entered so far: it never decreases, and items of a nested list do
\* not change it.
C15_ListStackDiscipline ==
    status \in {"walking", "done"} =>
        /\ Len(self.list_style_stack) = Len(OpenLists)
        /\ \A k \in 1..Len(OpenLists) :
              IF OpenLists[k].kind = "bullet_list"
              THEN self.list_style_stack[k].is_str
              ELSE /\ ~self.list_style_stack[k].is_str
                   /\ self.list_style_stack[k].count = OpenLists[k].n
                   /\ self.list_style_stack[k].enumtype = OpenLists[k].a.enumtype
                   /\ self.list_style_stack[k].prefix = OpenLists[k].a.prefix
                   /\ self.list_style_stack[k].suffix = OpenLists[k].a.suffix
        /\ (last.op = "visit" /\ IsList(last.node)) =>
              /\ Front(self.list_style_stack) = last.pre.list_style_stack
              /\ self.list_style_stack # <<>>
              /\ last.kind = "enumerated_list" =>
                    Last(self.list_style_stack).count = 0
        /\ (last.op = "depart" /\ IsList(last.node)) =>
              self.list_style_stack = Front(last.pre.list_style_stack)
        /\ (last.op = "visit" /\ last.kind = "list_item") =>
              /\ Len(self.list_style_stack) = Len(last.pre.list_style_stack)
              /\ \A k \in 1..(Len(self.list_style_stack) - 1) :
                    self.list_style_stack[k] = last.pre.list_style_stack[k]
              /\ IF Last(last.pre.list_style_stack).is_str
                 THEN Last(self.list_style_stack) = Last(last.pre.list_style_stack)
                 ELSE Last(self.list_style_stack)
                         = [Last(last.pre.list_style_stack) EXCEPT !.count = @ + 1]
        /\ (last.op # "init" /\ ~IsList(last.node) /\ last.kind # "list_item") =>
              self.list_style_stack = last.pre.list_style_stack
        /\ (last.op # "init" /\ last.kind = "list_item" /\ last.op # "visit") =>
              self.list_style_stack = last.pre.list_style_stack

\* The second item of an enumerated list nested in the first item of another
\* has just been entered.
C15_SecondItemOfNestedList ==
    /\ status = "walking"
    /\ last.op = "visit" /\ last.kind = "list_item"
    /\ Len(self.list_style_stack) = 2
    /\ ~self.list_style_stack[1].is_str /\ ~self.list_style_stack[2].is_str
    /\ self.list_style_stack[1].count = 1
    /\ self.list_style_stack[2].count = 2

(***************************************************************************)
(* List items: spacer, indentation and marker                              *)
(***************************************************************************)

\* depart_list_item has just run on an item whose last child is a paragraph,
\* the most recent commit of the buffer.
JustLeftItem ==
    /\ status = "walking"
    /\ last.op = "depart" /\ last.kind = "list_item"
    /\ last.node.seen # <<>>
    /\ Last(last.node.seen).kind = "paragraph"

\* The buffer that paragraph committed, before wrapping and indentation.
LastCommitted == CommittedOf(Last(last.node.seen).text)

\* C16: leaving a list item pops the indentation frame its entering pushed,
\* and sets the spacer to a blank line exactly when the buffer committed
\* last, measured before wrapping and without indentation, is longer than
\* the wrap width, and to the empty string otherwise.
C16_SpacerAfterItem ==
    JustLeftItem =>
        /\ self.indentation_levels = Front(last.pre.indentation_levels)
        /\ self.indent_first_line = Front(last.pre.indent_first_line)
        /\ Len(self.indentation_levels) = last.node.d0
        /\ self.spacer = (IF Len(LastCommitted) > options.wrap_length
                          THEN <<"\n">> ELSE <<>>)
        /\ self.last_buffer_length = Len(LastCommitted)

\* An item whose text is longer than the wrap width has been left.
C16_LongItemLeft ==
    /\ JustLeftItem
    /\ Len(LastCommitted) > options.wrap_length
    /\ self.spacer = <<"\n">>

\* C17: the indentation frame visit_list_item pushes is as wide as the
\* item's marker text, the marker and the space after it, whatever the
\* marker: a bullet, an enumerator with a prefix such as "(a) ", or one with
\* a counter of several characters such as "10. ".
C17_IndentMatchesMarker ==
    JustMarked => Last(self.indentation_levels) = Len(Marker) + 1

\* A handler has just committed the buffer to the body (depart_paragraph,
\* visit_definition for the term, visit_literal_block, visit_target) under
\* an indentation frame that carried a first-line override, such as a list
\* item's marker.
JustCommittedUnderOverride ==
    /\ status = "walking"
    /\ \/ last.op = "depart" /\ last.kind = "paragraph"
       \/ last.op = "visit" /\ last.kind = "definition"
       \/ last.op = "skip" /\ last.kind \in {"literal_block", "target"}
    /\ self.body # last.pre.body
    /\ last.pre.table_buffer = None
    /\ Len(last.pre.indentation_levels) > 1
    /\ Last(last.pre.indent_first_line) # None

\* C18: the marker of a list item goes on one output line only: the commit
\* that emits it clears the first-line override, whatever kind of node
\* commits first, so that every later commit in the item starts with plain
\* indentation.
C18_OverrideClearedByFirstCommit ==
    JustCommittedUnderOverride =>
        self.indent_first_line[Len(last.pre.indent_first_line)] = None

(***************************************************************************)
(* SpecDeepLists: bullet and enumerated lists of one item each, nested in  *)
(* each other beyond the length of the bullet-character table.             *)
(***************************************************************************)

\* The most lists nested in each other.
MaxListNesting == 7

DeepListsInput ==
    [NoInput EXCEPT
        !.kids = [document |-> 1, bullet_list |-> 1, enumerated_list |-> 1,
                  list_item |-> 1],
        !.kinds = {"bullet_list", "enumerated_list", "list_item", "paragraph"},
        !.depth = 2 * MaxListNesting + 2,
        !.nodes = 10 * MaxListNesting,
        !.paragraphs = {<<Text(<<"a">>)>>},
        !.enums = {[enumtype |-> <<"a", "r", "a", "b", "i", "c">>,
                    prefix |-> <<>>, suffix |-> <<".">>]}]

InitDeepLists == Start(DefaultWrapLength, DeepListsInput)

NextDeepLists ==
    \/ VisitBulletList
    \/ VisitEnumeratedList
    \/ VisitListItem
    \/ VisitParagraph
    \/ VisitText
    \/ DepartParagraph
    \/ DepartListItem
    \/ DepartBulletList
    \/ DepartEnumeratedList
    \/ DepartDocument

SpecDeepLists == InitDeepLists /\ [][NextDeepLists]_vars

\* visit_bullet_list has just run.
JustVisitedBulletList == last.op = "visit" /\ last.kind = "bullet_list"

\* C19: entering a bullet list pushes the marker the bullet-character table
\* holds for the list's nesting depth, the number of list frames already
\* open, taken modulo the table's length: there is a marker at every depth,
\* also at depths of the table's length and beyond.
C19_BulletForEveryDepth ==
    JustVisitedBulletList =>
        /\ status = "walking"
        /\ self.list_style_stack # <<>>
        /\ Last(self.list_style_stack)
              = BulletStyle(options.bullet_character[
                    (Len(last.pre.list_style_stack) % Len(options.bullet_character)) + 1])

\* ---------------------------------------------------------------------------
\* The borders of a rendered table, against the rows of its thead and tbody.

\* The rows the rendered table holds in its sections of one kind.
RowsIn(kind) ==
    Sum([i \in 1..Len(TheGroup.seen) |->
            IF TheGroup.seen[i].kind = kind
            THEN Len(TheGroup.seen[i].seen) ELSE 0])

\* The lines of the rendered table that are borders, in order, and the
\* character each border is ruled with.
RECURSIVE Borders(_)
Borders(lines) ==
    IF lines = <<>> THEN <<>>
    ELSE (IF Head(lines)[1] = "+" THEN <<Head(lines)>> ELSE <<>>)
         \o Borders(Tail(lines))
RuleOf(border) ==
    IF \A i \in 1..Len(border) : border[i] \in {"+", "=", "\n"} THEN "="
    ELSE IF \A i \in 1..Len(border) : border[i] \in {"+", "-", "\n"} THEN "-"
    ELSE "mixed"

\* C20: a rendered table opens with a border and has one border after every
\* row, so as many borders as rows plus one, the last line being a border;
\* the border after a row is ruled "=" exactly when the row is the last row
\* of the thead (no border is, without header rows) and "-" everywhere
\* else, the top border and the border after the last body row included.
C20_BorderRules ==
    JustRenderedTable =>
        LET borders == Borders(TableLines)
            heads == RowsIn("thead")
            rows == heads + RowsIn("tbody")
        IN  /\ TableLines[1][1] = "+"
            /\ TableLines[Len(TableLines)][1] = "+"
            /\ Len(borders) = rows + 1
            /\ RuleOf(borders[1]) = "-"
            /\ \A r \in 1..rows :
                  RuleOf(borders[r + 1]) = (IF r = heads THEN "=" ELSE "-")

\* A table of two header rows and a body row has been rendered.
C20_TwoHeaderRowsAndBody ==
    /\ JustRenderedTable
    /\ RowsIn("thead") = 2
    /\ RowsIn("tbody") >= 1
    /\ Len(Borders(TableLines)) >= 4

\* ---------------------------------------------------------------------------
\* Tables in the cells of tables.

\* Documents of one table of one column and up to two rows whose cells hold
\* paragraphs, literal blocks and tables of the same shape.
NestedTablesInput ==
    [NoInput EXCEPT
        !.kinds = {"table", "tgroup", "colspec", "thead", "tbody", "row",
                   "entry", "paragraph", "literal_block"},
        !.kids = [document |-> 1, entry |-> 2],
        !.depth = 12,
        !.nodes = 22,
        !.cols = 1,
        !.cells = 2,
        !.colwidths = {None, Some(WideColumn)},
        !.paragraphs = Plain({ <<"a", "b">> }),
        !.literals = {[classes |-> <<>>, text |-> <<"x">>]}]

InitNestedTables == Start(TableWrap, NestedTablesInput)

NextNestedTables == NextTable

SpecNestedTables == InitNestedTables /\ [][NextNestedTables]_vars

\* The traversal is inside a table node.
InsideTable == \E i \in 1..Len(path) : path[i].kind = "table"

\* A table in a cell of another table has just been left.
JustLeftInnerTable == JustRenderedTable /\ InsideTable

\* C21: at every point of the walk the table buffer exists if and only if
\* the traversal is inside a table node, a table nested in a cell of another
\* table included: after the inner table is left the outer table's buffer
\* is still present.
C21_TableBufferLifecycle ==
    status = "walking" => ((self.table_buffer # None) <=> InsideTable)

\* ---------------------------------------------------------------------------
\* The main output while a table is open.

\* C22: while the traversal is inside a table node no handler appends
\* anything to body: the text of body after every visit and departure of a
\* node inside the table is the text of body before it, whatever the cells
\* contain.
C22_BodyUntouchedInsideTable ==
    (status = "walking" /\ InsideTable /\ last.op # "init")
        => Join(self.body) = Join(last.pre.body)

\* ---------------------------------------------------------------------------
\* The commits of render_buffer.

\* A handler has just committed through render_buffer: depart_paragraph
\* outside a table, or visit_literal_block of a block without classes after
\* a fragment that does not end with a colon, which writes "::" and sets
\* the spacer before it commits.
ParagraphCommitted ==
    /\ last.op = "depart" /\ last.kind = "paragraph"
    /\ ~in_table(last.pre)
LiteralIntroCommitted ==
    /\ last.op = "skip" /\ last.kind = "literal_block"
    /\ ~in_table(last.pre)
    /\ last.node.a.classes = <<>>
    /\ ~ (/\ last.pre.body # <<>>
          /\ Len(Last(last.pre.body)) > 1
          /\ Last(last.pre.body)[Len(Last(last.pre.body)) - 1] = ":")
JustRenderedBuffer ==
    /\ status = "walking"
    /\ ParagraphCommitted \/ LiteralIntroCommitted

\* The translator when render_buffer was called, and when it returned.
BeforeCommit ==
    IF ParagraphCommitted THEN last.pre
    ELSE [write_to_buffer(last.pre, <<":", ":">>) EXCEPT !.spacer = <<"\n">>]
AfterCommit == render_buffer(BeforeCommit)

\* A text ends with exactly one newline.
EndsWithOneNewline(text) ==
    /\ text # <<>>
    /\ Last(text) = "\n"
    /\ Len(text) > 1 => text[Len(text) - 1] # "\n"

\* The commit protocol without its consequence: the spacer goes before the
\* committed text exactly when body holds a fragment; last_buffer_length is
\* the length of the joined buffer; the committed text ends with exactly
\* one newline; the buffer is empty afterwards; the spacer and the
\* indentation and list-style stacks are as before.
CommitProtocol ==
    JustRenderedBuffer =>
        /\ AfterCommit.body =
              BeforeCommit.body
              \o (IF BeforeCommit.body # <<>> THEN <<BeforeCommit.spacer>>
                  ELSE <<>>)
              \o <<Last(AfterCommit.body)>>
        /\ AfterCommit.last_buffer_length = Len(Join(BeforeCommit.buffer))
        /\ EndsWithOneNewline(Last(AfterCommit.body))
        /\ AfterCommit.buffer = <<>>
        /\ AfterCommit.spacer = BeforeCommit.spacer
        /\ AfterCommit.indentation_levels = BeforeCommit.indentation_levels
        /\ AfterCommit.indent_first_line = BeforeCommit.indent_first_line
        /\ AfterCommit.list_style_stack = BeforeCommit.list_style_stack

\* C23: a commit of render_buffer follows the commit protocol, and so the
\* spacer is never the first thing emitted into an empty output: when the
\* output is empty before a commit, it is the committed text after it.
C23_CommitProtocol ==
    /\ CommitProtocol
    /\ JustRenderedBuffer =>
          (Join(BeforeCommit.body) = <<>>
              => Join(AfterCommit.body) = Last(AfterCommit.body))

(***************************************************************************)
(* Handlers: sections and titles                                           *)
(***************************************************************************)

visit_section(s) == [s EXCEPT !.section_level = @ + 1]
depart_section(s) == [s EXCEPT !.section_level = @ - 1]

\* A render_title_line whose rule is one character short.
MutTitleLineOneShort(s, section_level, length) ==
    IF section_level + 1 > Len(options.title_chars)
    THEN Raise(s, "IndexError")
    ELSE [s EXCEPT !.body =
            @ \o <<Repeat(options.title_chars[section_level + 1], length - 1),
                   <<"\n">>>>]

\* render_title_line; section_level counts from 0 as in the code.
render_title_line(s, section_level, length) ==
    IF section_level + 1 > Len(options.title_chars)
    THEN Raise(s, "IndexError")
    ELSE [s EXCEPT !.body =
            @ \o <<Repeat(options.title_chars[section_level + 1], length),
                   <<"\n">>>>]

\* visit_title is `pass`.
depart_title(s) ==
    LET text_length == buffer_length(s)
        level == s.section_level
        s1 == [s EXCEPT !.body = Append(@, options.title_prefix[level + 1])]
        s2 == IF options.title_overline[level + 1]
              THEN [render_title_line(
                        [s1 EXCEPT !.body = Append(@, s1.spacer)],
                        level, text_length)
                    EXCEPT !.spacer = <<>>]
              ELSE s1
        s3 == IF s2.exc # "" THEN s2 ELSE render_buffer(s2)
        s4 == IF s3.exc # "" THEN s3
              ELSE render_title_line(s3, level, text_length)
    IN  IF level + 1 > Len(options.title_prefix) THEN Raise(s, "IndexError")
        ELSE IF s4.exc # "" THEN s4
        ELSE [s4 EXCEPT !.spacer = options.title_suffix[level + 1]]

\* A section starts with its title, and the sections of a node come after
\* its other children.
TitleComesFirst == Top.kind = "section" => Top.n >= 1
SectionsComeLast ==
    IF Top.seen = <<>> THEN TRUE ELSE Last(Top.seen).kind # "section"

VisitSection ==
    /\ CanEnter("section", {"document", "section"})
    /\ TitleComesFirst
    /\ Enter("section", NoAttr, <<>>, <<>>, visit_section(self))

DepartSection ==
    /\ CanLeave("section")
    /\ Top.n >= 1
    /\ Leave(depart_section(self))

VisitTitle ==
    /\ CanEnter("title", {"document", "section"})
    /\ Top.n = 0
    /\ \E content \in input.paragraphs :
         Enter("title", NoAttr, content, AsText(content), self)

DepartTitle ==
    /\ CanLeave("title")
    /\ Leave(depart_title(self))

VisitSectionParagraph ==
    /\ Walking
    /\ TitleComesFirst
    /\ SectionsComeLast
    /\ VisitParagraph

(***************************************************************************)
(* SpecTitles: sections in each other, each with its title and at most one *)
(* paragraph, under a narrow wrap_length.                                  *)
(***************************************************************************)

\* The wrap_length the titles are committed under, and the deepest nesting
\* of sections.
TitleWrap == 4
MaxSections == 6

\* A title longer than the wrap_length, of two words.
LongTitle == <<"a", "a", " ">> \o Repeat("a", TitleWrap - 2)

TitlesInput ==
    [NoInput EXCEPT
        !.kinds = {"section", "title", "paragraph"},
        !.kids = [document |-> 2, section |-> 2],
        !.depth = MaxSections + 2,
        !.nodes = 3 * MaxSections,
        !.paragraphs = { <<Text(<<"a", "b">>)>>,
                         <<Text(<<"a", "*">>),
                           Inline("emphasis", NoAttr, <<Text(<<"b">>)>>)>>,
                         <<Text(LongTitle)>> }]

InitTitles == Start(TitleWrap, TitlesInput)

NextTitles ==
    \/ VisitSection
    \/ DepartSection
    \/ VisitTitle
    \/ DepartTitle
    \/ VisitSectionParagraph
    \/ VisitText
    \/ VisitSimpleInline
    \/ DepartSimpleInline
    \/ DepartParagraph
    \/ DepartDocument

SpecTitles == InitTitles /\ [][NextTitles]_vars

\* depart_title has just returned.
JustLeftTitle ==
    /\ last.op = "depart" /\ last.kind = "title"
    /\ status = "walking"

\* The section depth of that title, its text as buffered (unwrapped, with
\* the delimiters of its inline markup), and the rule for it.
TitleDepth == last.pre.section_level
TitleText == Join(last.pre.buffer)
TitleRule == Repeat(options.title_chars[TitleDepth + 1], Len(TitleText))

\* What depart_title appended to body.
TitleOutput == SubSeq(self.body, Len(last.pre.body) + 1, Len(self.body))

\* The section nodes that are open.
OpenSections == Cardinality({i \in 1..Len(path) : path[i].kind = "section"})

LongItemText == Repeat("a", BulletWrap + 1)

ItemGapsInput ==
    [NoInput EXCEPT
        !.kinds = {"bullet_list", "list_item", "paragraph"},
        !.kids = [document |-> 1, bullet_list |-> 2, list_item |-> 2],
        !.least = [list_item |-> 1],
        !.depth = 6,
        !.nodes = 16,
        !.paragraphs = Plain({ <<"a">>, LongItemText })]

InitItemGaps == Start(BulletWrap, ItemGapsInput)

NextItemGaps == NextBullet

SpecItemGaps == InitItemGaps /\ [][NextItemGaps]_vars

\* visit_list_item has just entered an item that is not the first of its
\* list.
JustEnteredLaterItem ==
    /\ status = "walking"
    /\ last.op = "visit" /\ last.kind = "list_item"
    /\ path[Len(path) - 1].seen # <<>>

\* The newlines a text ends with.
RECURSIVE TrailingNewlines(_)
TrailingNewlines(text) ==
    IF text = <<>> \/ Last(text) # "\n" THEN 0
    ELSE 1 + TrailingNewlines(Front(text))

\* C25: between the output of two consecutive items of a list there is at
\* most one blank line: when the later item is entered the output ends with
\* the newline that ends the earlier item's last line and at most one more,
\* whatever the length of the earlier item and whether or not it ends with
\* a nested list.
C25_AtMostOneBlankLine ==
    JustEnteredLaterItem => TrailingNewlines(Join(self.body)) <= 2

(***************************************************************************)
(* SpecNarrowTable: tables of narrow columns, declared and undeclared,     *)
(* under a narrow wrap_length.                                             *)
(***************************************************************************)

\* The widest column declared, and the wrap_length of the walk.
MaxColwidth == 3
NarrowTableWrap == 8

NarrowTableInput ==
    [NoInput EXCEPT
        !.kinds = {"table", "tgroup", "colspec", "thead", "tbody", "row",
                   "entry", "paragraph", "literal_block"},
        !.kids = [document |-> 1, entry |-> 1],
        !.depth = 7,
        !.nodes = 24,
        !.cols = 2,
        !.cells = 4,
        !.colwidths = {None} \cup {Some(w) : w \in 1..MaxColwidth},
        !.paragraphs = Plain({ <<"a">> }),
        !.literals = {[classes |-> <<>>, text |-> <<"x">>]}]

InitNarrowTable == Start(NarrowTableWrap, NarrowTableInput)

NextNarrowTable == NextTable

SpecNarrowTable == InitNarrowTable /\ [][NextNarrowTable]_vars

\* A handler has just committed into a table cell, or raised on the way:
\* depart_paragraph or visit_literal_block with a table buffer.
CellCommitAttempted ==
    /\ \/ last.op = "depart" /\ last.kind = "paragraph"
       \/ last.op = "skip" /\ last.kind = "literal_block"
    /\ in_table(last.pre)

\* C26: every commit into a table cell passes a wrap width of at least 1 to
\* the wrapper, whatever the declared column width, the number of columns
\* and the wrap_length, and so never ends in the wrapper's ValueError.
C26_CellWidthPositive ==
    CellCommitAttempted =>
        /\ cell_wrapping(last.pre) >= 1
        /\ status # "ValueError"

=============================================================================
